---------------------------- MODULE Spec2Model ----------------------------
(***************************************************************************)
(* A model of the Sovereign Reasoning Engine                               *)
(* (src/sovereign-engine/sovereign_reasoning_engine.py).                   *)
(*                                                                         *)
(* The texts given to the engine are tuples of code points; labels and    *)
(* messages are TLA+ strings.  Python floats are kept as scaled integers:  *)
(* a confidence is in hundredths (0.85 is 85), a resistance in thousandths *)
(* (0.350 is 350).  Python's None is the string NoneVal where a string is  *)
(* expected and the tuple NoneText where a text is expected.               *)
(***************************************************************************)
EXTENDS Integers, Sequences, FiniteSets, TLC

(***************************************************************************)
(* Python str.  A text is the tuple of the code points of a str, so that   *)
(* every str is a text: "Hi" is <<72, 105>>.  Text(s) is the text of a     *)
(* TLA+ string written with the characters listed here; keywords,          *)
(* patterns, axioms and labels are written as TLA+ strings.                *)
(***************************************************************************)
\* U+0020..U+007E, U+00A0..U+00FF and U+0380..U+03FF, in code point order
ASCII_CHARS ==
    " !\"#$%&'()*+,-./0123456789:;<=>?@ABCDEFGHIJKLMNOPQRSTUVWXYZ[\\]^_" \o
    SubSeq("`'", 1, 1) \o "abcdefghijklmnopqrstuvwxyz{|}~"
LATIN1_CHARS ==
    " ¡¢£¤¥¦§¨©ª«¬­®¯°±²³´µ¶·¸¹º»¼½¾¿ÀÁÂÃÄÅÆÇÈÉÊËÌÍÎÏ" \o
    "ÐÑÒÓÔÕÖ×ØÙÚÛÜÝÞßàáâãäåæçèéêëìíîïðñòóôõö÷øùúûüýþÿ"
GREEK_CHARS ==
    "΀΁΂΃΄΅Ά·ΈΉΊ΋Ό΍ΎΏΐΑΒΓΔΕΖΗΘΙΚΛΜΝΞΟΠΡ΢ΣΤΥΦΧΨΩΪΫάέήίΰαβγδεζηθικλμνξο" \o
    "πρςστυφχψωϊϋόύώϏϐϑϒϓϔϕϖϗϘϙϚϛϜϝϞϟϠϡϢϣϤϥϦϧϨϩϪϫϬϭϮϯϰϱϲϳϴϵ϶ϷϸϹϺϻϼϽϾϿ"

\* the characters a TLA+ string of the model is written with
CHARS == ASCII_CHARS \o LATIN1_CHARS \o GREEK_CHARS \o "\t\n\f\r"

\* where the character ch stands in chars
Position(ch, chars) == CHOOSE k \in 1..Len(chars) : SubSeq(chars, k, k) = ch

\* ord() of the character at position p of CHARS
CodeAt(p) ==
    IF p <= 95 THEN p + 31
    ELSE IF p <= 191 THEN p + 64
    ELSE IF p <= 319 THEN p + 704
    ELSE IF p = 320 THEN 9
    ELSE IF p = 321 THEN 10
    ELSE IF p = 322 THEN 12
    ELSE 13

\* ord() of every character of CHARS
CODE_POINTS ==
    [ch \in { SubSeq(CHARS, k, k) : k \in 1..Len(CHARS) } |-> CodeAt(Position(ch, CHARS))]

\* ord(ch)
Ord(ch) == CODE_POINTS[ch]

\* the text of a string literal
Text(str) == [i \in 1..Len(str) |-> Ord(SubSeq(str, i, i))]

\* Whether code point c lies in one of the ranges rs[lo..hi]; rs is a tuple
\* of <<first, last>> pairs in increasing order.
RECURSIVE InRangesFrom(_, _, _, _)
InRangesFrom(c, rs, lo, hi) ==
    IF lo > hi THEN FALSE
    ELSE LET m == (lo + hi) \div 2
         IN  IF c < rs[m][1] THEN InRangesFrom(c, rs, lo, m - 1)
             ELSE IF c > rs[m][2] THEN InRangesFrom(c, rs, m + 1, hi)
             ELSE TRUE

InRanges(c, rs) == InRangesFrom(c, rs, 1, Len(rs))

\* The character tables are written as decimal numbers of FIELD_DIGITS
\* digits, each followed by a space; a table of n columns has one row for
\* every n numbers.
FIELD_DIGITS == Len("0000000")
DIGITS == "0123456789"
DigitValue ==
    [d \in { SubSeq(DIGITS, k, k) : k \in 1..Len(DIGITS) } |->
        (CHOOSE k \in 1..Len(DIGITS) : SubSeq(DIGITS, k, k) = d) - 1]

\* the number written with the n digits of str that start at position p
RECURSIVE NumberAt(_, _, _)
NumberAt(str, p, n) ==
    IF n = 0 THEN 0
    ELSE 10 * NumberAt(str, p, n - 1) + DigitValue[SubSeq(str, p + n - 1, p + n - 1)]

\* the k-th number of str
Field(str, k) == NumberAt(str, (FIELD_DIGITS + 1) * (k - 1) + 1, FIELD_DIGITS)

\* the numbers lo..hi of str, as a tuple
RECURSIVE Fields(_, _, _)
Fields(str, lo, hi) ==
    IF lo > hi THEN <<>>
    ELSE IF lo = hi THEN <<Field(str, lo)>>
    ELSE Fields(str, lo, (lo + hi) \div 2) \o Fields(str, (lo + hi) \div 2 + 1, hi)

\* the rows lo..hi of the table of n columns written in str
RECURSIVE TableRows(_, _, _, _)
TableRows(n, str, lo, hi) ==
    IF lo > hi THEN <<>>
    ELSE IF lo = hi THEN << Fields(str, n * (lo - 1) + 1, n * lo) >>
    ELSE TableRows(n, str, lo, (lo + hi) \div 2) \o
         TableRows(n, str, (lo + hi) \div 2 + 1, hi)

Table(n, str) == TableRows(n, str, 1, Len(str) \div (n * (FIELD_DIGITS + 1)))

\* The character tables of Python 3.11 (Unicode 14.0.0), as ranges of
\* code points.
\* str.isspace, the separators of str.split(), \s of re on a str pattern
UNICODE_SPACE == Table(2,
    "0000009 0000013 0000028 0000032 0000133 0000133 0000160 0000160 0005760 0005760 0008192 0008202 0008232 0008233 0008239 0008239 0008287 0008287 0012288 0012288 ")

\* \d of re on a str pattern: the decimal digits of every script
UNICODE_DIGIT == Table(2,
    "0000048 0000057 0001632 0001641 0001776 0001785 0001984 0001993 0002406 0002415 0002534 0002543 0002662 0002671 0002790 0002799 0002918 0002927 0003046 0003055 0003174 0003183 0003302 0003311 0003430 0003439 0003558 0003567 0003664 0003673 0003792 0003801 0003872 0003881 0004160 0004169 0004240 0004249 0006112 0006121 0006160 0006169 0006470 0006479 0006608 0006617 0006784 0006793 0006800 0006809 0006992 0007001 0007088 0007097 0007232 0007241 0007248 0007257 0042528 0042537 " \o
    "0043216 0043225 0043264 0043273 0043472 0043481 0043504 0043513 0043600 0043609 0044016 0044025 0065296 0065305 0066720 0066729 0068912 0068921 0069734 0069743 0069872 0069881 0069942 0069951 0070096 0070105 0070384 0070393 0070736 0070745 0070864 0070873 0071248 0071257 0071360 0071369 0071472 0071481 0071904 0071913 0072016 0072025 0072784 0072793 0073040 0073049 0073120 0073129 0092768 0092777 0092864 0092873 0093008 0093017 0120782 0120831 0123200 0123209 0123632 0123641 " \o
    "0125264 0125273 0130032 0130041 ")

\* \w of re on a str pattern: the letters and numbers of every script, and
\* the underscore
UNICODE_WORD == Table(2,
    "0000048 0000057 0000065 0000090 0000095 0000095 0000097 0000122 0000170 0000170 0000178 0000179 0000181 0000181 0000185 0000186 0000188 0000190 0000192 0000214 0000216 0000246 0000248 0000705 0000710 0000721 0000736 0000740 0000748 0000748 0000750 0000750 0000880 0000884 0000886 0000887 0000890 0000893 0000895 0000895 0000902 0000902 0000904 0000906 0000908 0000908 0000910 0000929 0000931 0001013 0001015 0001153 0001162 0001327 0001329 0001366 0001369 0001369 0001376 0001416 " \o
    "0001488 0001514 0001519 0001522 0001568 0001610 0001632 0001641 0001646 0001647 0001649 0001747 0001749 0001749 0001765 0001766 0001774 0001788 0001791 0001791 0001808 0001808 0001810 0001839 0001869 0001957 0001969 0001969 0001984 0002026 0002036 0002037 0002042 0002042 0002048 0002069 0002074 0002074 0002084 0002084 0002088 0002088 0002112 0002136 0002144 0002154 0002160 0002183 0002185 0002190 0002208 0002249 0002308 0002361 0002365 0002365 0002384 0002384 0002392 0002401 " \o
    "0002406 0002415 0002417 0002432 0002437 0002444 0002447 0002448 0002451 0002472 0002474 0002480 0002482 0002482 0002486 0002489 0002493 0002493 0002510 0002510 0002524 0002525 0002527 0002529 0002534 0002545 0002548 0002553 0002556 0002556 0002565 0002570 0002575 0002576 0002579 0002600 0002602 0002608 0002610 0002611 0002613 0002614 0002616 0002617 0002649 0002652 0002654 0002654 0002662 0002671 0002674 0002676 0002693 0002701 0002703 0002705 0002707 0002728 0002730 0002736 " \o
    "0002738 0002739 0002741 0002745 0002749 0002749 0002768 0002768 0002784 0002785 0002790 0002799 0002809 0002809 0002821 0002828 0002831 0002832 0002835 0002856 0002858 0002864 0002866 0002867 0002869 0002873 0002877 0002877 0002908 0002909 0002911 0002913 0002918 0002927 0002929 0002935 0002947 0002947 0002949 0002954 0002958 0002960 0002962 0002965 0002969 0002970 0002972 0002972 0002974 0002975 0002979 0002980 0002984 0002986 0002990 0003001 0003024 0003024 0003046 0003058 " \o
    "0003077 0003084 0003086 0003088 0003090 0003112 0003114 0003129 0003133 0003133 0003160 0003162 0003165 0003165 0003168 0003169 0003174 0003183 0003192 0003198 0003200 0003200 0003205 0003212 0003214 0003216 0003218 0003240 0003242 0003251 0003253 0003257 0003261 0003261 0003293 0003294 0003296 0003297 0003302 0003311 0003313 0003314 0003332 0003340 0003342 0003344 0003346 0003386 0003389 0003389 0003406 0003406 0003412 0003414 0003416 0003425 0003430 0003448 0003450 0003455 " \o
    "0003461 0003478 0003482 0003505 0003507 0003515 0003517 0003517 0003520 0003526 0003558 0003567 0003585 0003632 0003634 0003635 0003648 0003654 0003664 0003673 0003713 0003714 0003716 0003716 0003718 0003722 0003724 0003747 0003749 0003749 0003751 0003760 0003762 0003763 0003773 0003773 0003776 0003780 0003782 0003782 0003792 0003801 0003804 0003807 0003840 0003840 0003872 0003891 0003904 0003911 0003913 0003948 0003976 0003980 0004096 0004138 0004159 0004169 0004176 0004181 " \o
    "0004186 0004189 0004193 0004193 0004197 0004198 0004206 0004208 0004213 0004225 0004238 0004238 0004240 0004249 0004256 0004293 0004295 0004295 0004301 0004301 0004304 0004346 0004348 0004680 0004682 0004685 0004688 0004694 0004696 0004696 0004698 0004701 0004704 0004744 0004746 0004749 0004752 0004784 0004786 0004789 0004792 0004798 0004800 0004800 0004802 0004805 0004808 0004822 0004824 0004880 0004882 0004885 0004888 0004954 0004969 0004988 0004992 0005007 0005024 0005109 " \o
    "0005112 0005117 0005121 0005740 0005743 0005759 0005761 0005786 0005792 0005866 0005870 0005880 0005888 0005905 0005919 0005937 0005952 0005969 0005984 0005996 0005998 0006000 0006016 0006067 0006103 0006103 0006108 0006108 0006112 0006121 0006128 0006137 0006160 0006169 0006176 0006264 0006272 0006276 0006279 0006312 0006314 0006314 0006320 0006389 0006400 0006430 0006470 0006509 0006512 0006516 0006528 0006571 0006576 0006601 0006608 0006618 0006656 0006678 0006688 0006740 " \o
    "0006784 0006793 0006800 0006809 0006823 0006823 0006917 0006963 0006981 0006988 0006992 0007001 0007043 0007072 0007086 0007141 0007168 0007203 0007232 0007241 0007245 0007293 0007296 0007304 0007312 0007354 0007357 0007359 0007401 0007404 0007406 0007411 0007413 0007414 0007418 0007418 0007424 0007615 0007680 0007957 0007960 0007965 0007968 0008005 0008008 0008013 0008016 0008023 0008025 0008025 0008027 0008027 0008029 0008029 0008031 0008061 0008064 0008116 0008118 0008124 " \o
    "0008126 0008126 0008130 0008132 0008134 0008140 0008144 0008147 0008150 0008155 0008160 0008172 0008178 0008180 0008182 0008188 0008304 0008305 0008308 0008313 0008319 0008329 0008336 0008348 0008450 0008450 0008455 0008455 0008458 0008467 0008469 0008469 0008473 0008477 0008484 0008484 0008486 0008486 0008488 0008488 0008490 0008493 0008495 0008505 0008508 0008511 0008517 0008521 0008526 0008526 0008528 0008585 0009312 0009371 0009450 0009471 0010102 0010131 0011264 0011492 " \o
    "0011499 0011502 0011506 0011507 0011517 0011517 0011520 0011557 0011559 0011559 0011565 0011565 0011568 0011623 0011631 0011631 0011648 0011670 0011680 0011686 0011688 0011694 0011696 0011702 0011704 0011710 0011712 0011718 0011720 0011726 0011728 0011734 0011736 0011742 0011823 0011823 0012293 0012295 0012321 0012329 0012337 0012341 0012344 0012348 0012353 0012438 0012445 0012447 0012449 0012538 0012540 0012543 0012549 0012591 0012593 0012686 0012690 0012693 0012704 0012735 " \o
    "0012784 0012799 0012832 0012841 0012872 0012879 0012881 0012895 0012928 0012937 0012977 0012991 0013312 0019903 0019968 0042124 0042192 0042237 0042240 0042508 0042512 0042539 0042560 0042606 0042623 0042653 0042656 0042735 0042775 0042783 0042786 0042888 0042891 0042954 0042960 0042961 0042963 0042963 0042965 0042969 0042994 0043009 0043011 0043013 0043015 0043018 0043020 0043042 0043056 0043061 0043072 0043123 0043138 0043187 0043216 0043225 0043250 0043255 0043259 0043259 " \o
    "0043261 0043262 0043264 0043301 0043312 0043334 0043360 0043388 0043396 0043442 0043471 0043481 0043488 0043492 0043494 0043518 0043520 0043560 0043584 0043586 0043588 0043595 0043600 0043609 0043616 0043638 0043642 0043642 0043646 0043695 0043697 0043697 0043701 0043702 0043705 0043709 0043712 0043712 0043714 0043714 0043739 0043741 0043744 0043754 0043762 0043764 0043777 0043782 0043785 0043790 0043793 0043798 0043808 0043814 0043816 0043822 0043824 0043866 0043868 0043881 " \o
    "0043888 0044002 0044016 0044025 0044032 0055203 0055216 0055238 0055243 0055291 0063744 0064109 0064112 0064217 0064256 0064262 0064275 0064279 0064285 0064285 0064287 0064296 0064298 0064310 0064312 0064316 0064318 0064318 0064320 0064321 0064323 0064324 0064326 0064433 0064467 0064829 0064848 0064911 0064914 0064967 0065008 0065019 0065136 0065140 0065142 0065276 0065296 0065305 0065313 0065338 0065345 0065370 0065382 0065470 0065474 0065479 0065482 0065487 0065490 0065495 " \o
    "0065498 0065500 0065536 0065547 0065549 0065574 0065576 0065594 0065596 0065597 0065599 0065613 0065616 0065629 0065664 0065786 0065799 0065843 0065856 0065912 0065930 0065931 0066176 0066204 0066208 0066256 0066273 0066299 0066304 0066339 0066349 0066378 0066384 0066421 0066432 0066461 0066464 0066499 0066504 0066511 0066513 0066517 0066560 0066717 0066720 0066729 0066736 0066771 0066776 0066811 0066816 0066855 0066864 0066915 0066928 0066938 0066940 0066954 0066956 0066962 " \o
    "0066964 0066965 0066967 0066977 0066979 0066993 0066995 0067001 0067003 0067004 0067072 0067382 0067392 0067413 0067424 0067431 0067456 0067461 0067463 0067504 0067506 0067514 0067584 0067589 0067592 0067592 0067594 0067637 0067639 0067640 0067644 0067644 0067647 0067669 0067672 0067702 0067705 0067742 0067751 0067759 0067808 0067826 0067828 0067829 0067835 0067867 0067872 0067897 0067968 0068023 0068028 0068047 0068050 0068096 0068112 0068115 0068117 0068119 0068121 0068149 " \o
    "0068160 0068168 0068192 0068222 0068224 0068255 0068288 0068295 0068297 0068324 0068331 0068335 0068352 0068405 0068416 0068437 0068440 0068466 0068472 0068497 0068521 0068527 0068608 0068680 0068736 0068786 0068800 0068850 0068858 0068899 0068912 0068921 0069216 0069246 0069248 0069289 0069296 0069297 0069376 0069415 0069424 0069445 0069457 0069460 0069488 0069505 0069552 0069579 0069600 0069622 0069635 0069687 0069714 0069743 0069745 0069746 0069749 0069749 0069763 0069807 " \o
    "0069840 0069864 0069872 0069881 0069891 0069926 0069942 0069951 0069956 0069956 0069959 0069959 0069968 0070002 0070006 0070006 0070019 0070066 0070081 0070084 0070096 0070106 0070108 0070108 0070113 0070132 0070144 0070161 0070163 0070187 0070272 0070278 0070280 0070280 0070282 0070285 0070287 0070301 0070303 0070312 0070320 0070366 0070384 0070393 0070405 0070412 0070415 0070416 0070419 0070440 0070442 0070448 0070450 0070451 0070453 0070457 0070461 0070461 0070480 0070480 " \o
    "0070493 0070497 0070656 0070708 0070727 0070730 0070736 0070745 0070751 0070753 0070784 0070831 0070852 0070853 0070855 0070855 0070864 0070873 0071040 0071086 0071128 0071131 0071168 0071215 0071236 0071236 0071248 0071257 0071296 0071338 0071352 0071352 0071360 0071369 0071424 0071450 0071472 0071483 0071488 0071494 0071680 0071723 0071840 0071922 0071935 0071942 0071945 0071945 0071948 0071955 0071957 0071958 0071960 0071983 0071999 0071999 0072001 0072001 0072016 0072025 " \o
    "0072096 0072103 0072106 0072144 0072161 0072161 0072163 0072163 0072192 0072192 0072203 0072242 0072250 0072250 0072272 0072272 0072284 0072329 0072349 0072349 0072368 0072440 0072704 0072712 0072714 0072750 0072768 0072768 0072784 0072812 0072818 0072847 0072960 0072966 0072968 0072969 0072971 0073008 0073030 0073030 0073040 0073049 0073056 0073061 0073063 0073064 0073066 0073097 0073112 0073112 0073120 0073129 0073440 0073458 0073648 0073648 0073664 0073684 0073728 0074649 " \o
    "0074752 0074862 0074880 0075075 0077712 0077808 0077824 0078894 0082944 0083526 0092160 0092728 0092736 0092766 0092768 0092777 0092784 0092862 0092864 0092873 0092880 0092909 0092928 0092975 0092992 0092995 0093008 0093017 0093019 0093025 0093027 0093047 0093053 0093071 0093760 0093846 0093952 0094026 0094032 0094032 0094099 0094111 0094176 0094177 0094179 0094179 0094208 0100343 0100352 0101589 0101632 0101640 0110576 0110579 0110581 0110587 0110589 0110590 0110592 0110882 " \o
    "0110928 0110930 0110948 0110951 0110960 0111355 0113664 0113770 0113776 0113788 0113792 0113800 0113808 0113817 0119520 0119539 0119648 0119672 0119808 0119892 0119894 0119964 0119966 0119967 0119970 0119970 0119973 0119974 0119977 0119980 0119982 0119993 0119995 0119995 0119997 0120003 0120005 0120069 0120071 0120074 0120077 0120084 0120086 0120092 0120094 0120121 0120123 0120126 0120128 0120132 0120134 0120134 0120138 0120144 0120146 0120485 0120488 0120512 0120514 0120538 " \o
    "0120540 0120570 0120572 0120596 0120598 0120628 0120630 0120654 0120656 0120686 0120688 0120712 0120714 0120744 0120746 0120770 0120772 0120779 0120782 0120831 0122624 0122654 0123136 0123180 0123191 0123197 0123200 0123209 0123214 0123214 0123536 0123565 0123584 0123627 0123632 0123641 0124896 0124902 0124904 0124907 0124909 0124910 0124912 0124926 0124928 0125124 0125127 0125135 0125184 0125251 0125259 0125259 0125264 0125273 0126065 0126123 0126125 0126127 0126129 0126132 " \o
    "0126209 0126253 0126255 0126269 0126464 0126467 0126469 0126495 0126497 0126498 0126500 0126500 0126503 0126503 0126505 0126514 0126516 0126519 0126521 0126521 0126523 0126523 0126530 0126530 0126535 0126535 0126537 0126537 0126539 0126539 0126541 0126543 0126545 0126546 0126548 0126548 0126551 0126551 0126553 0126553 0126555 0126555 0126557 0126557 0126559 0126559 0126561 0126562 0126564 0126564 0126567 0126570 0126572 0126578 0126580 0126583 0126585 0126588 0126590 0126590 " \o
    "0126592 0126601 0126603 0126619 0126625 0126627 0126629 0126633 0126635 0126651 0127232 0127244 0130032 0130041 0131072 0173791 0173824 0177976 0177984 0178205 0178208 0183969 0183984 0191456 0194560 0195101 0196608 0201546 ")

\* the cased characters that are not case-ignorable, and the case-ignorable
\* characters, which str.lower() looks at around a capital sigma
UNICODE_CASED == Table(2,
    "0000065 0000090 0000097 0000122 0000170 0000170 0000181 0000181 0000186 0000186 0000192 0000214 0000216 0000246 0000248 0000442 0000444 0000447 0000452 0000659 0000661 0000687 0000880 0000883 0000886 0000887 0000891 0000893 0000895 0000895 0000902 0000902 0000904 0000906 0000908 0000908 0000910 0000929 0000931 0001013 0001015 0001153 0001162 0001327 0001329 0001366 0001376 0001416 0004256 0004293 0004295 0004295 0004301 0004301 0004304 0004346 0004349 0004351 0005024 0005109 " \o
    "0005112 0005117 0007296 0007304 0007312 0007354 0007357 0007359 0007424 0007467 0007531 0007543 0007545 0007578 0007680 0007957 0007960 0007965 0007968 0008005 0008008 0008013 0008016 0008023 0008025 0008025 0008027 0008027 0008029 0008029 0008031 0008061 0008064 0008116 0008118 0008124 0008126 0008126 0008130 0008132 0008134 0008140 0008144 0008147 0008150 0008155 0008160 0008172 0008178 0008180 0008182 0008188 0008450 0008450 0008455 0008455 0008458 0008467 0008469 0008469 " \o
    "0008473 0008477 0008484 0008484 0008486 0008486 0008488 0008488 0008490 0008493 0008495 0008500 0008505 0008505 0008508 0008511 0008517 0008521 0008526 0008526 0008544 0008575 0008579 0008580 0009398 0009449 0011264 0011387 0011390 0011492 0011499 0011502 0011506 0011507 0011520 0011557 0011559 0011559 0011565 0011565 0042560 0042605 0042624 0042651 0042786 0042863 0042865 0042887 0042891 0042894 0042896 0042954 0042960 0042961 0042963 0042963 0042965 0042969 0042997 0042998 " \o
    "0043002 0043002 0043824 0043866 0043872 0043880 0043888 0043967 0064256 0064262 0064275 0064279 0065313 0065338 0065345 0065370 0066560 0066639 0066736 0066771 0066776 0066811 0066928 0066938 0066940 0066954 0066956 0066962 0066964 0066965 0066967 0066977 0066979 0066993 0066995 0067001 0067003 0067004 0068736 0068786 0068800 0068850 0071840 0071903 0093760 0093823 0119808 0119892 0119894 0119964 0119966 0119967 0119970 0119970 0119973 0119974 0119977 0119980 0119982 0119993 " \o
    "0119995 0119995 0119997 0120003 0120005 0120069 0120071 0120074 0120077 0120084 0120086 0120092 0120094 0120121 0120123 0120126 0120128 0120132 0120134 0120134 0120138 0120144 0120146 0120485 0120488 0120512 0120514 0120538 0120540 0120570 0120572 0120596 0120598 0120628 0120630 0120654 0120656 0120686 0120688 0120712 0120714 0120744 0120746 0120770 0120772 0120779 0122624 0122633 0122635 0122654 0125184 0125251 0127280 0127305 0127312 0127337 0127344 0127369 ")

UNICODE_CASE_IGNORABLE == Table(2,
    "0000039 0000039 0000046 0000046 0000058 0000058 0000094 0000094 0000096 0000096 0000168 0000168 0000173 0000173 0000175 0000175 0000180 0000180 0000183 0000184 0000688 0000879 0000884 0000885 0000890 0000890 0000900 0000901 0000903 0000903 0001155 0001161 0001369 0001369 0001375 0001375 0001425 0001469 0001471 0001471 0001473 0001474 0001476 0001477 0001479 0001479 0001524 0001524 0001536 0001541 0001552 0001562 0001564 0001564 0001600 0001600 0001611 0001631 0001648 0001648 " \o
    "0001750 0001757 0001759 0001768 0001770 0001773 0001807 0001807 0001809 0001809 0001840 0001866 0001958 0001968 0002027 0002037 0002042 0002042 0002045 0002045 0002070 0002093 0002137 0002139 0002184 0002184 0002192 0002193 0002200 0002207 0002249 0002306 0002362 0002362 0002364 0002364 0002369 0002376 0002381 0002381 0002385 0002391 0002402 0002403 0002417 0002417 0002433 0002433 0002492 0002492 0002497 0002500 0002509 0002509 0002530 0002531 0002558 0002558 0002561 0002562 " \o
    "0002620 0002620 0002625 0002626 0002631 0002632 0002635 0002637 0002641 0002641 0002672 0002673 0002677 0002677 0002689 0002690 0002748 0002748 0002753 0002757 0002759 0002760 0002765 0002765 0002786 0002787 0002810 0002815 0002817 0002817 0002876 0002876 0002879 0002879 0002881 0002884 0002893 0002893 0002901 0002902 0002914 0002915 0002946 0002946 0003008 0003008 0003021 0003021 0003072 0003072 0003076 0003076 0003132 0003132 0003134 0003136 0003142 0003144 0003146 0003149 " \o
    "0003157 0003158 0003170 0003171 0003201 0003201 0003260 0003260 0003263 0003263 0003270 0003270 0003276 0003277 0003298 0003299 0003328 0003329 0003387 0003388 0003393 0003396 0003405 0003405 0003426 0003427 0003457 0003457 0003530 0003530 0003538 0003540 0003542 0003542 0003633 0003633 0003636 0003642 0003654 0003662 0003761 0003761 0003764 0003772 0003782 0003782 0003784 0003789 0003864 0003865 0003893 0003893 0003895 0003895 0003897 0003897 0003953 0003966 0003968 0003972 " \o
    "0003974 0003975 0003981 0003991 0003993 0004028 0004038 0004038 0004141 0004144 0004146 0004151 0004153 0004154 0004157 0004158 0004184 0004185 0004190 0004192 0004209 0004212 0004226 0004226 0004229 0004230 0004237 0004237 0004253 0004253 0004348 0004348 0004957 0004959 0005906 0005908 0005938 0005939 0005970 0005971 0006002 0006003 0006068 0006069 0006071 0006077 0006086 0006086 0006089 0006099 0006103 0006103 0006109 0006109 0006155 0006159 0006211 0006211 0006277 0006278 " \o
    "0006313 0006313 0006432 0006434 0006439 0006440 0006450 0006450 0006457 0006459 0006679 0006680 0006683 0006683 0006742 0006742 0006744 0006750 0006752 0006752 0006754 0006754 0006757 0006764 0006771 0006780 0006783 0006783 0006823 0006823 0006832 0006862 0006912 0006915 0006964 0006964 0006966 0006970 0006972 0006972 0006978 0006978 0007019 0007027 0007040 0007041 0007074 0007077 0007080 0007081 0007083 0007085 0007142 0007142 0007144 0007145 0007149 0007149 0007151 0007153 " \o
    "0007212 0007219 0007222 0007223 0007288 0007293 0007376 0007378 0007380 0007392 0007394 0007400 0007405 0007405 0007412 0007412 0007416 0007417 0007468 0007530 0007544 0007544 0007579 0007679 0008125 0008125 0008127 0008129 0008141 0008143 0008157 0008159 0008173 0008175 0008189 0008190 0008203 0008207 0008216 0008217 0008228 0008228 0008231 0008231 0008234 0008238 0008288 0008292 0008294 0008303 0008305 0008305 0008319 0008319 0008336 0008348 0008400 0008432 0011388 0011389 " \o
    "0011503 0011505 0011631 0011631 0011647 0011647 0011744 0011775 0011823 0011823 0012293 0012293 0012330 0012333 0012337 0012341 0012347 0012347 0012441 0012446 0012540 0012542 0040981 0040981 0042232 0042237 0042508 0042508 0042607 0042610 0042612 0042621 0042623 0042623 0042652 0042655 0042736 0042737 0042752 0042785 0042864 0042864 0042888 0042890 0042994 0042996 0043000 0043001 0043010 0043010 0043014 0043014 0043019 0043019 0043045 0043046 0043052 0043052 0043204 0043205 " \o
    "0043232 0043249 0043263 0043263 0043302 0043309 0043335 0043345 0043392 0043394 0043443 0043443 0043446 0043449 0043452 0043453 0043471 0043471 0043493 0043494 0043561 0043566 0043569 0043570 0043573 0043574 0043587 0043587 0043596 0043596 0043632 0043632 0043644 0043644 0043696 0043696 0043698 0043700 0043703 0043704 0043710 0043711 0043713 0043713 0043741 0043741 0043756 0043757 0043763 0043764 0043766 0043766 0043867 0043871 0043881 0043883 0044005 0044005 0044008 0044008 " \o
    "0044013 0044013 0064286 0064286 0064434 0064450 0065024 0065039 0065043 0065043 0065056 0065071 0065106 0065106 0065109 0065109 0065279 0065279 0065287 0065287 0065294 0065294 0065306 0065306 0065342 0065342 0065344 0065344 0065392 0065392 0065438 0065439 0065507 0065507 0065529 0065531 0066045 0066045 0066272 0066272 0066422 0066426 0067456 0067461 0067463 0067504 0067506 0067514 0068097 0068099 0068101 0068102 0068108 0068111 0068152 0068154 0068159 0068159 0068325 0068326 " \o
    "0068900 0068903 0069291 0069292 0069446 0069456 0069506 0069509 0069633 0069633 0069688 0069702 0069744 0069744 0069747 0069748 0069759 0069761 0069811 0069814 0069817 0069818 0069821 0069821 0069826 0069826 0069837 0069837 0069888 0069890 0069927 0069931 0069933 0069940 0070003 0070003 0070016 0070017 0070070 0070078 0070089 0070092 0070095 0070095 0070191 0070193 0070196 0070196 0070198 0070199 0070206 0070206 0070367 0070367 0070371 0070378 0070400 0070401 0070459 0070460 " \o
    "0070464 0070464 0070502 0070508 0070512 0070516 0070712 0070719 0070722 0070724 0070726 0070726 0070750 0070750 0070835 0070840 0070842 0070842 0070847 0070848 0070850 0070851 0071090 0071093 0071100 0071101 0071103 0071104 0071132 0071133 0071219 0071226 0071229 0071229 0071231 0071232 0071339 0071339 0071341 0071341 0071344 0071349 0071351 0071351 0071453 0071455 0071458 0071461 0071463 0071467 0071727 0071735 0071737 0071738 0071995 0071996 0071998 0071998 0072003 0072003 " \o
    "0072148 0072151 0072154 0072155 0072160 0072160 0072193 0072202 0072243 0072248 0072251 0072254 0072263 0072263 0072273 0072278 0072281 0072283 0072330 0072342 0072344 0072345 0072752 0072758 0072760 0072765 0072767 0072767 0072850 0072871 0072874 0072880 0072882 0072883 0072885 0072886 0073009 0073014 0073018 0073018 0073020 0073021 0073023 0073029 0073031 0073031 0073104 0073105 0073109 0073109 0073111 0073111 0073459 0073460 0078896 0078904 0092912 0092916 0092976 0092982 " \o
    "0092992 0092995 0094031 0094031 0094095 0094111 0094176 0094177 0094179 0094180 0110576 0110579 0110581 0110587 0110589 0110590 0113821 0113822 0113824 0113827 0118528 0118573 0118576 0118598 0119143 0119145 0119155 0119170 0119173 0119179 0119210 0119213 0119362 0119364 0121344 0121398 0121403 0121452 0121461 0121461 0121476 0121476 0121499 0121503 0121505 0121519 0122880 0122886 0122888 0122904 0122907 0122913 0122915 0122916 0122918 0122922 0123184 0123197 0123566 0123566 " \o
    "0123628 0123631 0125136 0125142 0125252 0125259 0127995 0127999 0917505 0917505 0917536 0917631 0917760 0917999 ")

\* str.lower() of one character: the row <<first, last, step, image>>
\* lowers the code points first, first + step, ..., last, and first to image
UNICODE_LOWER == Table(4,
    "0000065 0000090 0000001 0000097 0000192 0000214 0000001 0000224 0000216 0000222 0000001 0000248 0000256 0000302 0000002 0000257 0000306 0000310 0000002 0000307 0000313 0000327 0000002 0000314 0000330 0000374 0000002 0000331 0000376 0000376 0000001 0000255 0000377 0000381 0000002 0000378 0000385 0000385 0000001 0000595 0000386 0000388 0000002 0000387 0000390 0000390 0000001 0000596 0000391 0000391 0000001 0000392 0000393 0000394 0000001 0000598 0000395 0000395 0000001 0000396 " \o
    "0000398 0000398 0000001 0000477 0000399 0000399 0000001 0000601 0000400 0000400 0000001 0000603 0000401 0000401 0000001 0000402 0000403 0000403 0000001 0000608 0000404 0000404 0000001 0000611 0000406 0000406 0000001 0000617 0000407 0000407 0000001 0000616 0000408 0000408 0000001 0000409 0000412 0000412 0000001 0000623 0000413 0000413 0000001 0000626 0000415 0000415 0000001 0000629 0000416 0000420 0000002 0000417 0000422 0000422 0000001 0000640 0000423 0000423 0000001 0000424 " \o
    "0000425 0000425 0000001 0000643 0000428 0000428 0000001 0000429 0000430 0000430 0000001 0000648 0000431 0000431 0000001 0000432 0000433 0000434 0000001 0000650 0000435 0000437 0000002 0000436 0000439 0000439 0000001 0000658 0000440 0000440 0000001 0000441 0000444 0000444 0000001 0000445 0000452 0000452 0000001 0000454 0000453 0000453 0000001 0000454 0000455 0000455 0000001 0000457 0000456 0000456 0000001 0000457 0000458 0000458 0000001 0000460 0000459 0000475 0000002 0000460 " \o
    "0000478 0000494 0000002 0000479 0000497 0000497 0000001 0000499 0000498 0000500 0000002 0000499 0000502 0000502 0000001 0000405 0000503 0000503 0000001 0000447 0000504 0000542 0000002 0000505 0000544 0000544 0000001 0000414 0000546 0000562 0000002 0000547 0000570 0000570 0000001 0011365 0000571 0000571 0000001 0000572 0000573 0000573 0000001 0000410 0000574 0000574 0000001 0011366 0000577 0000577 0000001 0000578 0000579 0000579 0000001 0000384 0000580 0000580 0000001 0000649 " \o
    "0000581 0000581 0000001 0000652 0000582 0000590 0000002 0000583 0000880 0000882 0000002 0000881 0000886 0000886 0000001 0000887 0000895 0000895 0000001 0001011 0000902 0000902 0000001 0000940 0000904 0000906 0000001 0000941 0000908 0000908 0000001 0000972 0000910 0000911 0000001 0000973 0000913 0000929 0000001 0000945 0000931 0000939 0000001 0000963 0000975 0000975 0000001 0000983 0000984 0001006 0000002 0000985 0001012 0001012 0000001 0000952 0001015 0001015 0000001 0001016 " \o
    "0001017 0001017 0000001 0001010 0001018 0001018 0000001 0001019 0001021 0001023 0000001 0000891 0001024 0001039 0000001 0001104 0001040 0001071 0000001 0001072 0001120 0001152 0000002 0001121 0001162 0001214 0000002 0001163 0001216 0001216 0000001 0001231 0001217 0001229 0000002 0001218 0001232 0001326 0000002 0001233 0001329 0001366 0000001 0001377 0004256 0004293 0000001 0011520 0004295 0004295 0000001 0011559 0004301 0004301 0000001 0011565 0005024 0005103 0000001 0043888 " \o
    "0005104 0005109 0000001 0005112 0007312 0007354 0000001 0004304 0007357 0007359 0000001 0004349 0007680 0007828 0000002 0007681 0007838 0007838 0000001 0000223 0007840 0007934 0000002 0007841 0007944 0007951 0000001 0007936 0007960 0007965 0000001 0007952 0007976 0007983 0000001 0007968 0007992 0007999 0000001 0007984 0008008 0008013 0000001 0008000 0008025 0008031 0000002 0008017 0008040 0008047 0000001 0008032 0008072 0008079 0000001 0008064 0008088 0008095 0000001 0008080 " \o
    "0008104 0008111 0000001 0008096 0008120 0008121 0000001 0008112 0008122 0008123 0000001 0008048 0008124 0008124 0000001 0008115 0008136 0008139 0000001 0008050 0008140 0008140 0000001 0008131 0008152 0008153 0000001 0008144 0008154 0008155 0000001 0008054 0008168 0008169 0000001 0008160 0008170 0008171 0000001 0008058 0008172 0008172 0000001 0008165 0008184 0008185 0000001 0008056 0008186 0008187 0000001 0008060 0008188 0008188 0000001 0008179 0008486 0008486 0000001 0000969 " \o
    "0008490 0008490 0000001 0000107 0008491 0008491 0000001 0000229 0008498 0008498 0000001 0008526 0008544 0008559 0000001 0008560 0008579 0008579 0000001 0008580 0009398 0009423 0000001 0009424 0011264 0011311 0000001 0011312 0011360 0011360 0000001 0011361 0011362 0011362 0000001 0000619 0011363 0011363 0000001 0007549 0011364 0011364 0000001 0000637 0011367 0011371 0000002 0011368 0011373 0011373 0000001 0000593 0011374 0011374 0000001 0000625 0011375 0011375 0000001 0000592 " \o
    "0011376 0011376 0000001 0000594 0011378 0011378 0000001 0011379 0011381 0011381 0000001 0011382 0011390 0011391 0000001 0000575 0011392 0011490 0000002 0011393 0011499 0011501 0000002 0011500 0011506 0011506 0000001 0011507 0042560 0042604 0000002 0042561 0042624 0042650 0000002 0042625 0042786 0042798 0000002 0042787 0042802 0042862 0000002 0042803 0042873 0042875 0000002 0042874 0042877 0042877 0000001 0007545 0042878 0042886 0000002 0042879 0042891 0042891 0000001 0042892 " \o
    "0042893 0042893 0000001 0000613 0042896 0042898 0000002 0042897 0042902 0042920 0000002 0042903 0042922 0042922 0000001 0000614 0042923 0042923 0000001 0000604 0042924 0042924 0000001 0000609 0042925 0042925 0000001 0000620 0042926 0042926 0000001 0000618 0042928 0042928 0000001 0000670 0042929 0042929 0000001 0000647 0042930 0042930 0000001 0000669 0042931 0042931 0000001 0043859 0042932 0042946 0000002 0042933 0042948 0042948 0000001 0042900 0042949 0042949 0000001 0000642 " \o
    "0042950 0042950 0000001 0007566 0042951 0042953 0000002 0042952 0042960 0042960 0000001 0042961 0042966 0042968 0000002 0042967 0042997 0042997 0000001 0042998 0065313 0065338 0000001 0065345 0066560 0066599 0000001 0066600 0066736 0066771 0000001 0066776 0066928 0066938 0000001 0066967 0066940 0066954 0000001 0066979 0066956 0066962 0000001 0066995 0066964 0066965 0000001 0067003 0068736 0068786 0000001 0068800 0071840 0071871 0000001 0071872 0093760 0093791 0000001 0093792 " \o
    "0125184 0125217 0000001 0125218 ")

IsSpace(c) == InRanges(c, UNICODE_SPACE)
IsDigit(c) == InRanges(c, UNICODE_DIGIT)
IsWord(c)  == InRanges(c, UNICODE_WORD)
IsCased(c) == InRanges(c, UNICODE_CASED)
IsCaseIgnorable(c) == InRanges(c, UNICODE_CASE_IGNORABLE)

\* the rows of the case table tab that hold the code point c
RowsOf(c, tab) ==
    { k \in 1..Len(tab) :
        tab[k][1] <= c /\ c <= tab[k][2] /\ (c - tab[k][1]) % tab[k][3] = 0 }

\* c as the rows of tab that hold it map it, as a text; a character without
\* a row is left as it is
MapChar(c, tab, rows) ==
    IF rows = {} THEN <<c>>
    ELSE <<c + tab[CHOOSE k \in rows : TRUE][4] - tab[CHOOSE k \in rows : TRUE][1]>>

MapCharIn(c, tab) == MapChar(c, tab, RowsOf(c, tab))

\* c.lower() for one character, as a text: the capital I with a dot above
\* becomes two code points
LowerChar(c) ==
    IF c < 128
    THEN IF 65 <= c /\ c <= 90 THEN <<c + 32>> ELSE <<c>>
    ELSE IF c = 304 THEN <<105, 775>>
    ELSE MapCharIn(c, UNICODE_LOWER)

\* the positions a..b of s whose character is not case-ignorable
NotIgnorable(s, a, b) == { k \in a..b : ~IsCaseIgnorable(s[k]) }

\* whether the nearest of the positions `before` is cased and the nearest
\* of the positions `after`, if any, is not
CasedBeforeOnly(s, before, after) ==
    LET Near(k) == \/ k \in before /\ \A h \in before : h <= k
                   \/ k \in after /\ \A h \in after : k <= h
        cased   == { k \in before \cup after : Near(k) /\ IsCased(s[k]) }
    IN  /\ before # {}
        /\ cased \cap before # {}
        /\ cased \cap after = {}

\* Whether the capital sigma at position i of s[lo..hi] is lowered to the
\* final sigma: the nearest character before it that is not case-ignorable
\* is cased, and the nearest one after it, if any, is not.
FinalSigma(s, i, lo, hi) ==
    CasedBeforeOnly(s, NotIgnorable(s, lo, i - 1), NotIgnorable(s, i + 1, hi))

\* what the character at position i of s[lo..hi] becomes in .lower()
LowerAt(s, i, lo, hi) ==
    IF s[i] = 931 /\ FinalSigma(s, i, lo, hi) THEN <<962>>
    ELSE LowerChar(s[i])

\* characters i..j of s, as they are in s[lo..hi].lower()
RECURSIVE LowerSpan(_, _, _, _, _)
LowerSpan(s, i, j, lo, hi) ==
    IF i > j THEN <<>>
    ELSE IF i = j THEN LowerAt(s, i, lo, hi)
    ELSE LET m == (i + j) \div 2
         IN  LowerSpan(s, i, m, lo, hi) \o LowerSpan(s, m + 1, j, lo, hi)

\* s[i-1:j].lower()
LowerRange(s, i, j) == LowerSpan(s, i, j, i, j)

\* str.lower()
Lower(s) == LowerRange(s, 1, Len(s))

\* `sub in s` for Python strings
Contains(s, sub) ==
    \E i \in 1..(Len(s) - Len(sub) + 1) : SubSeq(s, i, i + Len(sub) - 1) = sub

\* any(kw in s for kw in kws), kws a tuple of keywords
ContainsAny(s, kws) == \E k \in 1..Len(kws) : Contains(s, Text(kws[k]))

IsSpaceAt(s, i) == i >= 1 /\ i <= Len(s) /\ IsSpace(s[i])

\* The maximal runs of non-whitespace characters of s, as (first, last) pairs
WordSpans(s) ==
    { <<a, b>> \in (1..Len(s)) \X (1..Len(s)) :
        /\ a <= b
        /\ \A k \in a..b : ~IsSpaceAt(s, k)
        /\ (a = 1 \/ IsSpaceAt(s, a - 1))
        /\ (b = Len(s) \/ IsSpaceAt(s, b + 1)) }

\* set(s.split())
SplitSet(s) == { SubSeq(s, p[1], p[2]) : p \in WordSpans(s) }

\* len(s.split())
SplitCount(s) ==
    Cardinality({ a \in 1..Len(s) :
                    ~IsSpaceAt(s, a) /\ (a = 1 \/ IsSpaceAt(s, a - 1)) })

(***************************************************************************)
(* Regular expressions as Python's re.search decides them.  A pattern is a *)
(* tree; Ends(re, s, i) is the set of positions just after a match of re   *)
(* that starts at position i of s.                                         *)
(***************************************************************************)
Lit(str)    == [k |-> "lit", s |-> Text(str)]
OneOf(chs)  == [k |-> "set", s |-> { Text(chs)[j] : j \in 1..Len(chs) }]
WB          == [k |-> "wb"]
Cat(rs)     == [k |-> "cat", r |-> rs]
Alt(rs)     == [k |-> "alt", r |-> rs]
Star(re)    == [k |-> "star", r |-> re]
Plus(re)    == Cat(<<re, Star(re)>>)
Opt(re)     == Alt(<<Lit(""), re>>)
AltLits(ls) == Alt([j \in 1..Len(ls) |-> Lit(ls[j])])

ReW == [k |-> "class", c |-> "w"]
ReS == [k |-> "class", c |-> "s"]
ReD == [k |-> "class", c |-> "d"]

\* whether character c is of the class \w, \s or \d
InClass(cls, c) ==
    CASE cls = "w" -> IsWord(c)
      [] cls = "s" -> IsSpace(c)
      [] cls = "d" -> IsDigit(c)

IsWordAt(s, i) == i >= 1 /\ i <= Len(s) /\ IsWord(s[i])

RECURSIVE Ends(_, _, _), EndsCat(_, _, _, _), EndsStar(_, _, _, _)
Ends(re, s, i) ==
    CASE re.k = "lit"  ->
            IF i + Len(re.s) - 1 <= Len(s) /\ SubSeq(s, i, i + Len(re.s) - 1) = re.s
            THEN {i + Len(re.s)} ELSE {}
      [] re.k = "set"  ->
            IF i <= Len(s) /\ s[i] \in re.s THEN {i + 1} ELSE {}
      [] re.k = "class" ->
            IF i <= Len(s) /\ InClass(re.c, s[i]) THEN {i + 1} ELSE {}
      [] re.k = "wb"   ->
            IF IsWordAt(s, i - 1) # IsWordAt(s, i) THEN {i} ELSE {}
      [] re.k = "cat"  -> EndsCat(re.r, 1, s, {i})
      [] re.k = "alt"  -> UNION { Ends(re.r[j], s, i) : j \in 1..Len(re.r) }
      [] re.k = "star" -> EndsStar(re.r, s, {i}, {i})

\* the positions after rs[j], rs[j+1], ... matched in a row from any of `from`
EndsCat(rs, j, s, from) ==
    IF j > Len(rs) \/ from = {} THEN from
    ELSE EndsCat(rs, j + 1, s, UNION { Ends(rs[j], s, p) : p \in from })

\* the positions after zero or more matches of re: `acc` found, `frontier` new
EndsStar(re, s, frontier, acc) ==
    LET step == (UNION { Ends(re, s, p) : p \in frontier }) \ acc
    IN  IF step = {} THEN acc ELSE EndsStar(re, s, step, acc \cup step)

\* bool(re.search(pattern, s))
Search(re, s) == \E i \in 1..(Len(s) + 1) : Ends(re, s, i) # {}

NoneVal == "<None>"

\* None where a text is expected: a tuple that is the text of no str
NoneText == <<-1>>

(***************************************************************************)
(* TRUTH FLOOR: the 12 axioms and the axiom match.                         *)
(***************************************************************************)
TRUTH_FLOOR == <<
    Text("This statement exists"),
    Text("A and not-A cannot both be true in the same context"),
    Text("Energy is conserved"),
    Text("c = 299792458 m/s in vacuum"),
    Text("E = hν"),
    Text("π is transcendental"),
    Text("e is transcendental"),
    Text("Every integer greater than 1 has unique prime factorization"),
    Text("Shannon entropy of any message is >= 0"),
    Text("Entropy of an isolated system never decreases"),
    Text("An unknown quantum state cannot be perfectly cloned"),
    Text("Verifying the Truth Floor adds zero net friction") >>

StopWords == { Text(w) : w \in {"the", "a", "is", "of", "in", "to", "and", "an"} }

\* set(axiom.lower().split()) - {stop words}
AxiomWords(axiom) == SplitSet(Lower(axiom)) \ StopWords

\* the keyword set of each axiom of a registry, by position
AxiomWordsOf(floor) == [j \in 1..Len(floor) |-> AxiomWords(floor[j])]

AXIOM_WORDS == AxiomWordsOf(TRUTH_FLOOR)

\* sum(1 for w in axiom_words if w in claim_lower)
AxiomMatches(axiom_words, claim_lower) ==
    Cardinality({ w \in axiom_words : Contains(claim_lower, w) })

\* matches >= len(axiom_words) * 0.6
AxiomHit(axiom_words, claim_lower) ==
    10 * AxiomMatches(axiom_words, claim_lower) >= 6 * Cardinality(axiom_words)

\* the positions of the axioms the lowered claim hits
AxiomHits(words, claim_lower) ==
    { j \in 1..Len(words) : AxiomHit(words[j], claim_lower) }

\* the first of the axioms hit, or None
FirstHit(floor, hits) ==
    IF hits = {} THEN NoneText
    ELSE floor[CHOOSE j \in hits : \A h \in hits : j <= h]

\* The axioms are tried in registry order and the first hit is returned.
check_truth_floor(claim) ==
    FirstHit(TRUTH_FLOOR, AxiomHits(AXIOM_WORDS, Lower(claim)))

(***************************************************************************)
(* The 13 truth tiers and the token table.                                 *)
(***************************************************************************)
\* TruthTier with the resistance of T8 above that of T9
TruthTier_testimonial_above_social == <<
    [tier_num |-> 0,  tier_name |-> "Axiomatic",            resistance |-> 0],
    [tier_num |-> 1,  tier_name |-> "Mathematical",         resistance |-> 1],
    [tier_num |-> 2,  tier_name |-> "Logical",              resistance |-> 5],
    [tier_num |-> 3,  tier_name |-> "Empirical-Stable",     resistance |-> 10],
    [tier_num |-> 4,  tier_name |-> "Empirical-Measured",   resistance |-> 30],
    [tier_num |-> 5,  tier_name |-> "Documentary",          resistance |-> 50],
    [tier_num |-> 6,  tier_name |-> "Contextual",           resistance |-> 80],
    [tier_num |-> 7,  tier_name |-> "Temporal",             resistance |-> 120],
    [tier_num |-> 8,  tier_name |-> "Testimonial",          resistance |-> 300],
    [tier_num |-> 9,  tier_name |-> "Social/Consensus",     resistance |-> 250],
    [tier_num |-> 10, tier_name |-> "Cognitive/Subjective", resistance |-> 350],
    [tier_num |-> 11, tier_name |-> "Speculative",          resistance |-> 500],
    [tier_num |-> 12, tier_name |-> "Integrity Violation",  resistance |-> 1000] >>

TruthTier == <<
    [tier_num |-> 0,  tier_name |-> "Axiomatic",            resistance |-> 0],
    [tier_num |-> 1,  tier_name |-> "Mathematical",         resistance |-> 1],
    [tier_num |-> 2,  tier_name |-> "Logical",              resistance |-> 5],
    [tier_num |-> 3,  tier_name |-> "Empirical-Stable",     resistance |-> 10],
    [tier_num |-> 4,  tier_name |-> "Empirical-Measured",   resistance |-> 30],
    [tier_num |-> 5,  tier_name |-> "Documentary",          resistance |-> 50],
    [tier_num |-> 6,  tier_name |-> "Contextual",           resistance |-> 80],
    [tier_num |-> 7,  tier_name |-> "Temporal",             resistance |-> 120],
    [tier_num |-> 8,  tier_name |-> "Testimonial",          resistance |-> 180],
    [tier_num |-> 9,  tier_name |-> "Social/Consensus",     resistance |-> 250],
    [tier_num |-> 10, tier_name |-> "Cognitive/Subjective", resistance |-> 350],
    [tier_num |-> 11, tier_name |-> "Speculative",          resistance |-> 500],
    [tier_num |-> 12, tier_name |-> "Integrity Violation",  resistance |-> 1000] >>

T0_AXIOMATIC          == TruthTier[1]
T1_MATHEMATICAL       == TruthTier[2]
T2_LOGICAL            == TruthTier[3]
T3_EMPIRICAL_STABLE   == TruthTier[4]
T4_EMPIRICAL_MEASURED == TruthTier[5]
T5_DOCUMENTARY        == TruthTier[6]
T6_CONTEXTUAL         == TruthTier[7]
T7_TEMPORAL           == TruthTier[8]
T8_TESTIMONIAL        == TruthTier[9]
T9_SOCIAL             == TruthTier[10]
T10_COGNITIVE         == TruthTier[11]
T11_SPECULATIVE       == TruthTier[12]
T12_INTEGRITY         == TruthTier[13]

TruthToken(sym, tr, nm, kws) == [symbol |-> sym, tier |-> tr, name |-> nm, keywords |-> kws]

\* The dict TTO_TOKENS in insertion order
TTO_TOKENS == <<
    TruthToken("TautologyTT", T0_AXIOMATIC, "Tautology", <<"tautology", "by definition", "necessarily">>),
    TruthToken("ExistenceTT", T0_AXIOMATIC, "Existence", <<"exists", "there is", "being">>),
    TruthToken("IdentityTT", T0_AXIOMATIC, "Identity", <<"identical", "same as", "equals itself">>),
    TruthToken("MathematicalTT", T1_MATHEMATICAL, "Mathematical", <<"equals", "sum", "calculate", "compute", "math", "+", "-", "*", "/", "=">>),
    TruthToken("PhysicalConstantTT", T1_MATHEMATICAL, "Physical Constant", <<"speed of light", "planck", "constant", "c =", "π", "299792458">>),
    TruthToken("DefinitionalTT", T1_MATHEMATICAL, "Definitional", <<"defined as", "by definition", "means">>),
    TruthToken("DeductiveTT", T2_LOGICAL, "Deductive", <<"therefore", "thus", "hence", "it follows">>),
    TruthToken("SyllogisticTT", T2_LOGICAL, "Syllogistic", <<"all", "some", "no", "if then">>),
    TruthToken("BinaryLogicalTT", T2_LOGICAL, "Binary Logic", <<"and", "or", "not", "xor", "implies">>),
    TruthToken("ScientificLawTT", T3_EMPIRICAL_STABLE, "Scientific Law", <<"law of", "always", "never", "universal">>),
    TruthToken("UniversalTT", T3_EMPIRICAL_STABLE, "Universal Fact", <<"everywhere", "all", "every", "always">>),
    TruthToken("AtomicFactTT", T3_EMPIRICAL_STABLE, "Atomic Fact", <<"is", "has", "contains">>),
    TruthToken("EmpiricalTT", T4_EMPIRICAL_MEASURED, "Empirical", <<"observed", "measured", "experiment">>),
    TruthToken("StatisticalTT", T4_EMPIRICAL_MEASURED, "Statistical", <<"average", "mean", "percent", "correlation">>),
    TruthToken("MeasurementTT", T4_EMPIRICAL_MEASURED, "Measurement", <<"measured", "reading", "value">>),
    TruthToken("DocumentaryTT", T5_DOCUMENTARY, "Documentary", <<"document", "record", "certificate">>),
    TruthToken("CitationTT", T5_DOCUMENTARY, "Citation", <<"according to", "cited", "reference">>),
    TruthToken("HistoricalTT", T5_DOCUMENTARY, "Historical", <<"in history", "historically", "year", "century">>),
    TruthToken("ContextualTT", T6_CONTEXTUAL, "Contextual", <<"in context", "depending on", "within">>),
    TruthToken("DomainSpecificTT", T6_CONTEXTUAL, "Domain-Specific", <<"in medicine", "in law", "technically">>),
    TruthToken("ConditionalTT", T6_CONTEXTUAL, "Conditional", <<"if", "when", "provided that">>),
    TruthToken("CurrentTT", T7_TEMPORAL, "Current", <<"currently", "now", "at present", "today">>),
    TruthToken("PredictiveTT", T7_TEMPORAL, "Predictive", <<"will", "forecast", "expect", "predict">>),
    TruthToken("TrendTT", T7_TEMPORAL, "Trend", <<"trend", "rising", "falling", "increasing">>),
    TruthToken("TestimonialTT", T8_TESTIMONIAL, "Testimonial", <<"said", "claims", "testified", "reported">>),
    TruthToken("ExpertOpinionTT", T8_TESTIMONIAL, "Expert Opinion", <<"expert", "scientist says", "doctor says">>),
    TruthToken("HearsayTT", T8_TESTIMONIAL, "Hearsay", <<"heard that", "supposedly", "allegedly">>),
    TruthToken("ConsensusTT", T9_SOCIAL, "Consensus", <<"consensus", "most agree", "widely accepted">>),
    TruthToken("CulturalTT", T9_SOCIAL, "Cultural", <<"culture", "tradition", "custom">>),
    TruthToken("NormativeTT", T9_SOCIAL, "Normative", <<"should", "ought", "must", "need to">>),
    TruthToken("OpinionTT", T10_COGNITIVE, "Opinion", <<"i think", "in my opinion", "i believe">>),
    TruthToken("BeliefTT", T10_COGNITIVE, "Belief", <<"believe", "faith", "conviction">>),
    TruthToken("PreferenceTT", T10_COGNITIVE, "Preference", <<"prefer", "like", "favorite">>),
    TruthToken("IntrospectiveTT", T10_COGNITIVE, "Introspective", <<"i feel", "i am", "i want">>),
    TruthToken("SpeculativeTT", T11_SPECULATIVE, "Speculative", <<"maybe", "perhaps", "might", "possibly", "could be", "aliens">>),
    TruthToken("HypotheticalTT", T11_SPECULATIVE, "Hypothetical", <<"what if", "hypothetically", "imagine", "suppose">>),
    TruthToken("UncertainTT", T11_SPECULATIVE, "Uncertain", <<"uncertain", "unclear", "unknown", "not sure">>),
    TruthToken("FalseTT", T12_INTEGRITY, "False", <<"false", "wrong", "incorrect", "untrue">>),
    TruthToken("MisleadingTT", T12_INTEGRITY, "Misleading", <<"misleading", "deceptive", "spin">>),
    TruthToken("PropagandaTT", T12_INTEGRITY, "Propaganda", <<"propaganda", "manipulate", "brainwash">>),
    TruthToken("ContradictoryTT", T12_INTEGRITY, "Contradictory", <<"contradict", "inconsistent", "paradox">>) >>

(***************************************************************************)
(* Epistemic subject detection.                                            *)
(***************************************************************************)
INTROSPECTIVE_PATTERNS == <<
    Cat(<<WB, Lit("i"), Plus(ReS),
          AltLits(<<"feel", "think", "believe", "want", "like", "hate", "love",
                    "prefer", "know", "remember">>), WB>>),
    Cat(<<WB, Lit("my"), Plus(ReS),
          AltLits(<<"opinion", "view", "feeling", "experience", "belief">>), WB>>),
    Cat(<<WB, Lit("to me"), WB>>),
    Cat(<<WB, Lit("for me"), WB>>),
    Cat(<<WB, Lit("i'm"), Plus(ReS), AltLits(<<"sure", "certain", "convinced">>), WB>>) >>

TESTIMONIAL_PATTERNS == <<
    Cat(<<WB, AltLits(<<"he", "she", "they", "it">>), Plus(ReS),
          AltLits(<<"said", "told", "claimed", "stated", "believes", "thinks">>), WB>>),
    Cat(<<WB, Lit("according to"), WB>>),
    Cat(<<WB, Plus(ReW), Plus(ReS), Lit("says"), WB>>),
    Cat(<<WB, Lit("reportedly"), WB>>),
    Cat(<<WB, Lit("allegedly"), WB>>) >>

AUTHORITY_PATTERNS == <<
    Cat(<<WB, Lit("scientist"), Opt(Lit("s")), Plus(ReS),
          AltLits(<<"say", "believe", "found", "discovered">>), WB>>),
    Cat(<<WB, Lit("research"), Plus(ReS),
          Alt(<<Cat(<<Lit("show"), Opt(Lit("s"))>>),
                Cat(<<Lit("indicate"), Opt(Lit("s"))>>),
                Cat(<<Lit("suggest"), Opt(Lit("s"))>>)>>), WB>>),
    Cat(<<WB, Lit("expert"), Opt(Lit("s")), Plus(ReS),
          AltLits(<<"say", "believe", "agree">>), WB>>),
    Cat(<<WB, Lit("the"), Plus(ReS), Lit("study"), Plus(ReS),
          AltLits(<<"found", "shows", "indicates">>), WB>>) >>

APRIORI_PATTERNS == <<
    Cat(<<WB, Plus(ReD), Star(ReS), OneOf("+-*/"), Star(ReS), Plus(ReD),
          Star(ReS), Lit("="), Star(ReS), Plus(ReD), WB>>),
    Cat(<<WB, Plus(ReD), Star(ReS), OneOf("+-*/"), Star(ReS), Plus(ReD), WB>>),
    Cat(<<WB, Lit("by definition"), WB>>),
    Cat(<<WB, Lit("necessarily"), WB>>),
    Cat(<<WB, Lit("logically"), WB>>),
    Cat(<<WB, Lit("all"), Plus(ReS), Plus(ReW), Plus(ReS), Lit("are"), WB>>),
    Cat(<<WB, Lit("no"), Plus(ReS), Plus(ReW), Plus(ReS), Lit("is"), WB>>) >>

NORMATIVE_PATTERNS == <<
    Cat(<<WB, Lit("should"), WB>>),
    Cat(<<WB, Lit("ought"), WB>>),
    Cat(<<WB, Lit("must"), WB>>),
    Cat(<<WB, Lit("need to"), WB>>),
    Cat(<<WB, Lit("is"), Plus(ReS),
          AltLits(<<"right", "wrong", "good", "bad", "moral", "immoral">>), WB>>) >>

\* any pattern of the group is found in the text
AnyPattern(patterns, text) == \E j \in 1..Len(patterns) : Search(patterns[j], text)

EpistemicSubject(st, lvl, conf, acc, ver) ==
    [subject_type |-> st, epistemic_level |-> lvl, confidence |-> conf,
     access_type |-> acc, verifiability |-> ver]

\* detect with the testimonial group tried before the introspective group
detect_testimonial_first(text) ==
    LET text_lower == Lower(text)
    IN  IF AnyPattern(TESTIMONIAL_PATTERNS, text_lower)
        THEN EpistemicSubject("other", "testimonial", 70, "reported", "partial")
        ELSE IF AnyPattern(INTROSPECTIVE_PATTERNS, text_lower)
        THEN EpistemicSubject("self", "introspective", 100, "direct", "unfalsifiable")
        ELSE IF AnyPattern(AUTHORITY_PATTERNS, text_lower)
        THEN EpistemicSubject("authority", "a_posteriori", 85, "reported", "verifiable")
        ELSE IF AnyPattern(APRIORI_PATTERNS, text_lower)
        THEN EpistemicSubject("universal", "a_priori", 100, "direct", "verifiable")
        ELSE IF AnyPattern(NORMATIVE_PATTERNS, text_lower)
        THEN EpistemicSubject("anonymous", "normative", 60, "inferred", "partial")
        ELSE EpistemicSubject("anonymous", "a_posteriori", 80, "direct", "verifiable")

\* the pattern groups in the order detect tries them, and what the first
\* group with a match yields
DetectOn(text_lower) ==
    IF AnyPattern(INTROSPECTIVE_PATTERNS, text_lower)
    THEN EpistemicSubject("self", "introspective", 100, "direct", "unfalsifiable")
    ELSE IF AnyPattern(TESTIMONIAL_PATTERNS, text_lower)
    THEN EpistemicSubject("other", "testimonial", 70, "reported", "partial")
    ELSE IF AnyPattern(AUTHORITY_PATTERNS, text_lower)
    THEN EpistemicSubject("authority", "a_posteriori", 85, "reported", "verifiable")
    ELSE IF AnyPattern(APRIORI_PATTERNS, text_lower)
    THEN EpistemicSubject("universal", "a_priori", 100, "direct", "verifiable")
    ELSE IF AnyPattern(NORMATIVE_PATTERNS, text_lower)
    THEN EpistemicSubject("anonymous", "normative", 60, "inferred", "partial")
    ELSE EpistemicSubject("anonymous", "a_posteriori", 80, "direct", "verifiable")

detect(text) == DetectOn(Lower(text))

(***************************************************************************)
(* TTOClassifier.classify                                                  *)
(***************************************************************************)
\* sum(1 for kw in token.keywords if kw in text_lower)
Score(token, text_lower) ==
    Cardinality({ j \in 1..Len(token.keywords) : Contains(text_lower, Text(token.keywords[j])) })

TokenIndex(symbol) == CHOOSE j \in 1..Len(TTO_TOKENS) : TTO_TOKENS[j].symbol = symbol

\* BestToken falling back to UniversalTT when nothing scored
BestToken_default_universal(text_lower) ==
    LET scored == { j \in 1..Len(TTO_TOKENS) : Score(TTO_TOKENS[j], text_lower) > 0 }
        top == { j \in scored : \A h \in scored :
                    Score(TTO_TOKENS[j], text_lower) >= Score(TTO_TOKENS[h], text_lower) }
    IN  IF scored # {}
        THEN TTO_TOKENS[CHOOSE j \in top : \A h \in top : j <= h]
        ELSE TTO_TOKENS[TokenIndex("UniversalTT")]

\* BestToken keeping the last of the equal top scores
BestToken_last_of_ties(text_lower) ==
    LET scored == { j \in 1..Len(TTO_TOKENS) : Score(TTO_TOKENS[j], text_lower) > 0 }
        top == { j \in scored : \A h \in scored :
                    Score(TTO_TOKENS[j], text_lower) >= Score(TTO_TOKENS[h], text_lower) }
    IN  IF scored # {}
        THEN TTO_TOKENS[CHOOSE j \in top : \A h \in top : j >= h]
        ELSE TTO_TOKENS[TokenIndex("AtomicFactTT")]

\* scores: the positions of the tokens with a keyword in the text
Scored(tokens, text_lower) ==
    { j \in 1..Len(tokens) : Score(tokens[j], text_lower) > 0 }

\* the positions, among `scored`, of the tokens with the highest score
TopScored(tokens, text_lower, scored) ==
    { j \in scored : \A h \in scored :
        Score(tokens[j], text_lower) >= Score(tokens[h], text_lower) }

\* the first of the positions `top` in table order, or the default token
FirstOrDefault(tokens, top) ==
    IF top # {}
    THEN tokens[CHOOSE j \in top : \A h \in top : j <= h]
    ELSE tokens[CHOOSE j \in 1..Len(tokens) : tokens[j].symbol = "AtomicFactTT"]

\* max(scores, key=scores.get) over the tokens that scored, or the default:
\* the first token in table order whose score is the highest
BestTokenOf(tokens, text_lower) ==
    FirstOrDefault(tokens, TopScored(tokens, text_lower, Scored(tokens, text_lower)))

BestToken(text_lower) == BestTokenOf(TTO_TOKENS, text_lower)

\* FinalTier without the introspective adjustment
FinalTier_no_introspective(best_token, epistemic) ==
    IF epistemic.epistemic_level = "testimonial" THEN T8_TESTIMONIAL
    ELSE IF epistemic.epistemic_level = "speculative" THEN T11_SPECULATIVE
    ELSE best_token.tier

\* step 4 of classify: the tier after the epistemic adjustment
FinalTier(best_token, epistemic) ==
    IF epistemic.epistemic_level = "introspective" THEN T10_COGNITIVE
    ELSE IF epistemic.epistemic_level = "testimonial" THEN T8_TESTIMONIAL
    ELSE IF epistemic.epistemic_level = "speculative" THEN T11_SPECULATIVE
    ELSE best_token.tier

\* the classification classify returns for the best token, the detected
\* epistemic subject and the final tier
Classification(best_token, epistemic, final_tier) ==
    [symbol            |-> best_token.symbol,
     name              |-> best_token.name,
     tier              |-> final_tier.tier_num,
     tier_name         |-> final_tier.tier_name,
     resistance        |-> final_tier.resistance,
     epistemic_subject |-> epistemic.subject_type,
     epistemic_level   |-> epistemic.epistemic_level,
     verifiability     |-> epistemic.verifiability,
     confidence        |-> epistemic.confidence]

ClassifyWith(best_token, epistemic) ==
    Classification(best_token, epistemic, FinalTier(best_token, epistemic))

classify(text) == ClassifyWith(BestToken(Lower(text)), detect(text))

(***************************************************************************)
(* verification_cascade (SOLVE)                                            *)
(***************************************************************************)
VerificationResult(v, conf, meth, tr, res, det) ==
    [verified |-> v, confidence |-> conf, method |-> meth, tier |-> tr,
     resistance |-> res, details |-> det]

\* r'\d+\s*[\+\-\*\/\=]\s*\d+'
MATH_PATTERN == Cat(<<Plus(ReD), Star(ReS), OneOf("+-*/="), Star(ReS), Plus(ReD)>>)

TAUTOLOGY_CUES == <<"exists", "a = a", "identical">>
LOGICAL_CUES == <<"therefore", "thus", "implies", "if then">>
scientific_keywords == <<"law", "constant", "measured", "documented", "recorded">>

\* what a band yields when none of its rules returns
NoRule == [method |-> NoneVal]

\* The T0 band
BandT0(claim, tier, resistance) ==
    LET axiom_match == check_truth_floor(claim)
    IN  IF axiom_match # NoneText
        THEN VerificationResult(TRUE, 100, "truth_floor_axiom", tier, resistance,
                                {<<"matched_axiom", axiom_match>>})
        ELSE IF ContainsAny(Lower(claim), TAUTOLOGY_CUES)
        THEN VerificationResult(TRUE, 100, "tautology", tier, resistance, {})
        ELSE NoRule

\* The T1-T2 band without the arithmetic rule
BandT1T2_no_math(claim, tier, resistance) ==
    LET axiom_match == check_truth_floor(claim)
    IN  IF axiom_match # NoneText
        THEN VerificationResult(TRUE, 99, "truth_floor_constant", tier, resistance,
                                {<<"matched_axiom", axiom_match>>})
        ELSE IF ContainsAny(Lower(claim), LOGICAL_CUES)
        THEN VerificationResult(TRUE, 90, "logical_pattern", tier, resistance, {})
        ELSE NoRule

\* The T1-T2 band
BandT1T2(claim, tier, resistance) ==
    LET axiom_match == check_truth_floor(claim)
    IN  IF axiom_match # NoneText
        THEN VerificationResult(TRUE, 99, "truth_floor_constant", tier, resistance,
                                {<<"matched_axiom", axiom_match>>})
        ELSE IF Search(MATH_PATTERN, claim)
        THEN VerificationResult(TRUE, 95, "mathematical_pattern", tier, resistance, {})
        ELSE IF ContainsAny(Lower(claim), LOGICAL_CUES)
        THEN VerificationResult(TRUE, 90, "logical_pattern", tier, resistance, {})
        ELSE NoRule

\* The T3-T5 band
BandT3T5(claim, tier, resistance) ==
    IF ContainsAny(Lower(claim), scientific_keywords)
    THEN VerificationResult(TRUE, 85, "pattern_verified", tier, resistance, {})
    ELSE NoRule

\* The T6-T8 band
BandT6T8(tier, resistance) ==
    VerificationResult(TRUE, 70, "context_acknowledged", tier, resistance,
                       {<<"note", "Context-dependent claim - confidence limited">>})

\* The T9-T11 band without the verifiability test
BandT9T11_always_flagged(classification, tier, resistance) ==
    VerificationResult(TRUE, 40, "speculative_flagged", tier, resistance,
                       {<<"note", "Flagged as speculative">>})

\* The T9-T11 band
BandT9T11(classification, tier, resistance) ==
    IF classification.verifiability = "unfalsifiable"
    THEN VerificationResult(TRUE, 50, "epistemic_acknowledgment", tier, resistance,
                            {<<"note", "Subjective/speculative - cannot independently verify">>})
    ELSE VerificationResult(TRUE, 40, "speculative_flagged", tier, resistance,
                            {<<"note", "Flagged as speculative">>})

\* The T12 band
BandT12(tier, resistance) ==
    VerificationResult(FALSE, 0, "integrity_violation_detected", tier, resistance,
                       {<<"note", "Potential misinformation - requires full verification">>})

DefaultPass(tier, resistance) ==
    VerificationResult(TRUE, 60, "default_pass", tier, resistance, {})

\* verification_cascade with the high band written as `tier >= 9`
verification_cascade_high_band_open(claim, classification) ==
    LET tier == classification.tier
        resistance == classification.resistance
    IN  IF tier \in {6, 7, 8} THEN BandT6T8(tier, resistance)
        ELSE IF tier >= 9 THEN BandT9T11(classification, tier, resistance)
        ELSE DefaultPass(tier, resistance)

verification_cascade(claim, classification) ==
    LET tier == classification.tier
        resistance == classification.resistance
    IN  IF tier = 0 /\ BandT0(claim, tier, resistance).method # NoneVal
        THEN BandT0(claim, tier, resistance)
        ELSE IF tier \in {1, 2} /\ BandT1T2(claim, tier, resistance).method # NoneVal
        THEN BandT1T2(claim, tier, resistance)
        ELSE IF tier \in {3, 4, 5} /\ BandT3T5(claim, tier, resistance).method # NoneVal
        THEN BandT3T5(claim, tier, resistance)
        ELSE IF tier \in {6, 7, 8} THEN BandT6T8(tier, resistance)
        ELSE IF tier \in {9, 10, 11} THEN BandT9T11(classification, tier, resistance)
        ELSE IF tier = 12 THEN BandT12(tier, resistance)
        ELSE DefaultPass(tier, resistance)

(***************************************************************************)
(* The input texts of the model: a fixed corpus, and every phrase of up to *)
(* MaxWords fragments joined by single spaces.                             *)
(***************************************************************************)
MaxWords == 2

\* 51 words
LongText ==
    Text("Our village sits beside a river where herons wade at dawn; farmers bring apples, pears, plums to market each week; children run past the old mill; bakers sell warm bread; a ferry takes travellers across; by dusk the lamps glow; quiet streets empty; owls call; mist covers the fields until sunrise")

\* 21 words
MediumText ==
    Text("A grey cat sat by the warm stove; the kettle sang; snow fell past the dark glass; the clock struck seven")

\* 50 words: the largest word count that is not "more than 50"
FiftyWords ==
    Text("Our village sits beside a river where herons wade at dawn; farmers bring apples, pears, plums to market each week; children run past the old mill; bakers sell warm bread; a ferry takes travellers across; by dusk the lamps glow; streets empty; owls call; mist covers the fields until sunrise")

\* 20 words: the largest word count that is not "more than 20"
TwentyWords ==
    Text("A grey cat sat by the warm stove; the kettle sang; snow fell past the glass; the clock struck seven")

\* the corpus as it is written
CORPUS_LITERALS == {
    "",
    "Hello",
    "i love",
    "My friend said Bitcoin will hit $200k this year.",
    "I think chocolate is the best flavor.",
    "2 + 2 = 4",
    "Scientists believe climate change is real.",
    "What is the speed of light?",
    "Energy is conserved",
    "ENERGY IS CONSERVED",
    "Meditation is transcendental",
    "This statement exists",
    "E = hν",
    "π is transcendental",
    "I think scientists are right",
    "I think she said experts agree",
    "She said the law is wrong and false",
    "I think that is false and wrong",
    "This is misleading spin",
    "According to experts we should go",
    "The study found all cats are measured",
    "no cat is bad",
    "We should always measure",
    "someone  says so",
    "a = a",
    "x=1 and 2=2 thus 3",
    "it implies the constant",
    "Maybe aliens exist, perhaps.",
    "The record was documented in the year 1999",
    "to me it's fine",
    "tome",
    "I'M SURE it will",
    "All and every, always everywhere",
    "c = 299792458 m/s in vacuum 1 = 1",
    "Π Is Transcendental",
    "E = HΝ",
    "ϖ is transcendental",
    "ΕΝΈΡΓΕΙΑΣ is conserved",
    "café says so",
    "Energy\fis\tconserved",
    "All cats are false",
    "All cats are false" }

\* Texts with characters beyond those of the literals: the capital sharp s
\* in "STRAẞE is", U+1680 between two words, a letter of Latin Extended-B
\* before "says", Extended Arabic-Indic digits in a sum, the dotless i in
\* "thıs exısts", and the capital I with a dot above
BEYOND_LITERALS == {
    <<83, 84, 82, 65, 7838, 69, 32, 105, 115>>,
    <<105, 5760, 116, 104, 105, 110, 107>>,
    <<385, 32, 115, 97, 121, 115, 32, 115, 111>>,
    <<1778, 32, 43, 32, 1778, 32, 61, 32, 1780>>,
    <<116, 104, 305, 115, 32, 101, 120, 305, 115, 116, 115>>,
    <<84, 72, 304, 83, 32, 69, 88, 304, 83, 84, 83>> }

CORPUS == { Text(str) : str \in CORPUS_LITERALS } \cup BEYOND_LITERALS
              \cup {LongText, MediumText}

FRAGMENTS == {"I think", "she said", "experts agree", "2+2", "should", "is wrong"}

Join(p, f) == IF p = <<>> THEN Text(f) ELSE p \o Text(" ") \o Text(f)

RECURSIVE Phrases(_)
Phrases(n) ==
    IF n = 0 THEN {<<>>}
    ELSE Phrases(n - 1) \cup { Join(p, f) : p \in Phrases(n - 1), f \in FRAGMENTS }

\* the axioms of the registry, as texts
AXIOM_TEXTS == { TRUTH_FLOOR[j] : j \in 1..Len(TRUTH_FLOOR) }

Texts == CORPUS \cup Phrases(MaxWords) \cup AXIOM_TEXTS

Verifiabilities == {"verifiable", "unfalsifiable", "partial"}

\* The classifications a caller may hand to verification_cascade for a text:
\* the text's own classification, with any tier and any verifiability.
Classifications(own) ==
    { [own EXCEPT !.tier = TruthTier[j].tier_num,
                  !.tier_name = TruthTier[j].tier_name,
                  !.resistance = TruthTier[j].resistance,
                  !.verifiability = v] :
        j \in 1..Len(TruthTier), v \in Verifiabilities }

\* The results of the pure functions on the model's inputs, computed once.
DetectOf     == [t \in Texts |-> detect(t)]
ClassifyOf   == [t \in Texts |-> classify(t)]
TruthFloorOf == [t \in Texts |-> check_truth_floor(t)]
ClsArgsOf    == [t \in Texts |-> Classifications(ClassifyOf[t])]
CascadeOf    == [t \in Texts |-> [c \in ClsArgsOf[t] |-> verification_cascade(t, c)]]

(***************************************************************************)
(* The stages of SovereignReasoningEngine.reason as functions of the       *)
(* ReasoningState fields they read.                                        *)
(***************************************************************************)
ANALYSIS_DIMENSIONS ==
    <<"logical", "emotional", "ethical", "temporal", "stakeholder", "risk", "creative">>

DEEP_WORD_COUNT == 50
MEDIUM_WORD_COUNT == 20

aware(input_text) ==
    LET epistemic == detect(input_text)
    IN  [raw_input         |-> input_text,
         word_count        |-> SplitCount(input_text),
         is_question       |-> Contains(input_text, Text("?")),
         epistemic_subject |-> epistemic.subject_type,
         epistemic_level   |-> epistemic.epistemic_level,
         contains_claim    |-> ~(Len(input_text) >= 1
                                  /\ SubSeq(input_text, Len(input_text), Len(input_text))
                                         = Text("?"))]

\* energize with the deep-analysis threshold reached at 50 words
energize_deep_from_fifty(aw) ==
    LET deep == aw.word_count >= DEEP_WORD_COUNT
                  \/ aw.epistemic_level \in {"testimonial", "normative"}
    IN  [complexity |-> IF deep THEN "high"
                        ELSE IF aw.word_count > MEDIUM_WORD_COUNT THEN "medium"
                        ELSE "low",
         requires_deep_analysis |-> deep,
         requires_verification  |-> aw.epistemic_level # "a_priori",
         allocated_dimensions   |-> IF deep THEN Len(ANALYSIS_DIMENSIONS) ELSE 0]

energize(aw) ==
    LET deep == aw.word_count > DEEP_WORD_COUNT
                  \/ aw.epistemic_level \in {"testimonial", "normative"}
    IN  [complexity |-> IF deep THEN "high"
                        ELSE IF aw.word_count > MEDIUM_WORD_COUNT THEN "medium"
                        ELSE "low",
         requires_deep_analysis |-> deep,
         requires_verification  |-> aw.epistemic_level # "a_priori",
         allocated_dimensions   |-> IF deep THEN Len(ANALYSIS_DIMENSIONS) ELSE 0]

\* the dict _recognize stores: the classification and the truth floor match
Recognition(c, floor_match) ==
    [symbol            |-> c.symbol,
     name              |-> c.name,
     tier              |-> c.tier,
     tier_name         |-> c.tier_name,
     resistance        |-> c.resistance,
     epistemic_subject |-> c.epistemic_subject,
     epistemic_level   |-> c.epistemic_level,
     verifiability     |-> c.verifiability,
     confidence        |-> c.confidence,
     truth_floor_match |-> floor_match]

recognize(input_text) ==
    Recognition(classify(input_text), check_truth_floor(input_text))

solve(input_text, recog) == verification_cascade(input_text, recog)

\* attain with confidence_level high only above 0.85
attain_high_above_085(sol) ==
    [goal_achieved       |-> sol.verified /\ sol.confidence >= 50,
     confidence_level    |-> IF sol.confidence > 85 THEN "high"
                             ELSE IF sol.confidence >= 50 THEN "medium"
                             ELSE "low",
     verification_method |-> sol.method,
     caveats_needed      |-> sol.confidence < 85]

attain(sol) ==
    [goal_achieved       |-> sol.verified /\ sol.confidence >= 50,
     confidence_level    |-> IF sol.confidence >= 85 THEN "high"
                             ELSE IF sol.confidence >= 50 THEN "medium"
                             ELSE "low",
     verification_method |-> sol.method,
     caveats_needed      |-> sol.confidence < 85]

(***************************************************************************)
(* The external LLM client.  A client is what hasattr and a call can tell  *)
(* of it: the name of its class, whether it has an attribute chat, the     *)
(* name of the class of that attribute and whether it can be called,       *)
(* whether it has an attribute messages.  The transport's answer to one    *)
(* call is an outcome: a text, or an exception.                            *)
(***************************************************************************)
OllamaShape    == [class_name |-> "OllamaClient", has_chat |-> TRUE,
                   chat_class |-> "method", chat_callable |-> TRUE,
                   has_messages |-> FALSE]
AnthropicShape == [class_name |-> "Anthropic", has_chat |-> FALSE,
                   chat_class |-> NoneVal, chat_callable |-> FALSE,
                   has_messages |-> TRUE]
OpenAIShape    == [class_name |-> "OpenAI", has_chat |-> TRUE,
                   chat_class |-> "Chat", chat_callable |-> FALSE,
                   has_messages |-> FALSE]
\* a client object with neither attribute, such as object()
BareShape      == [class_name |-> "object", has_chat |-> FALSE,
                   chat_class |-> NoneVal, chat_callable |-> FALSE,
                   has_messages |-> FALSE]
\* a client whose chat attribute is an object of another class that cannot
\* be called
ConversationShape == [class_name |-> "Client", has_chat |-> TRUE,
                      chat_class |-> "Conversation", chat_callable |-> FALSE,
                      has_messages |-> FALSE]

CLIENTS == {OllamaShape, AnthropicShape, OpenAIShape, BareShape, ConversationShape}

ANSWERS == {"alpha", "beta"}
ERRORS  == {"timeout"}

Outcomes ==
    { [ok |-> TRUE, text |-> a] : a \in ANSWERS } \cup
    { [ok |-> FALSE, text |-> e] : e \in ERRORS }

\* No call reaches the transport
NoOutcome == [ok |-> FALSE, text |-> NoneVal]

\* Whether the try block, on this client, gets as far as the transport
ReachesTransport(cl) == (cl.has_chat /\ cl.chat_callable) \/ (~cl.has_chat /\ cl.has_messages)

\* what the transport can answer to the call made on this client
OutcomesFor(cl) == IF ReachesTransport(cl) THEN Outcomes ELSE {NoOutcome}

\* The body of the try block of multidimensional_analysis and of _act: the
\* branch hasattr selects, and what the call in it yields.
LLMCall(cl, outcome) ==
    IF cl.has_chat
    THEN IF cl.chat_callable
         THEN [branch |-> "chat", ok |-> outcome.ok, text |-> outcome.text]
         ELSE [branch |-> "chat", ok |-> FALSE, text |-> "'" \o cl.chat_class \o "' object is not callable"]
    ELSE IF cl.has_messages
    THEN [branch |-> "messages", ok |-> outcome.ok, text |-> outcome.text]
    ELSE [branch |-> "completions", ok |-> FALSE, text |-> "'" \o cl.class_name \o "' object has no attribute 'chat'"]

\* AnalysisEntry without the except clause: a failing call leaves the function
AnalysisEntry_abort_on_failure(dim_name, call) ==
    [raised |-> ~call.ok, dim |-> dim_name, text |-> call.text]

\* One pass of the loop body of multidimensional_analysis: the entry stored
\* for the dimension; raised tells whether an exception leaves the function.
AnalysisEntry(dim_name, call) ==
    IF call.ok
    THEN [raised |-> FALSE, dim |-> dim_name, text |-> call.text]
    ELSE [raised |-> FALSE, dim |-> dim_name,
          text |-> "[Analysis failed: " \o call.text \o "]"]

\* _act without the except clause: a failing call leaves the function
act_no_catch(call) ==
    [raised |-> ~call.ok, text |-> call.text]

\* What _act returns for the outcome of its one call
act(call) ==
    IF call.ok
    THEN [raised |-> FALSE, text |-> call.text]
    ELSE [raised |-> FALSE, text |-> "[Response generation failed: " \o call.text \o "]"]

\* A dict whose insertion order matters is the sequence of its items.
\* state.thinking when stage 4 is skipped:
SKIPPED ==
    << [key |-> "skipped", value |-> TRUE],
       [key |-> "reason",  value |-> "Low complexity - direct verification"] >>

\* state.thinking.get('skipped')
IsSkipped(th) == \E i \in 1..Len(th) : th[i].key = "skipped" /\ th[i].value

\* d.get(key): the value under the key, None when the dict has no such key
DictGet(d, key) == IF key \in DOMAIN d THEN d[key] ELSE NoneVal

\* _compile_result: recognition is read with get, the solution by attribute
compile_result(input_text, act_text, aw, en, recog, th, sol, att, calls) ==
    [input    |-> input_text,
     response |-> act_text,
     stages   |-> [aware     |-> aw,
                   energize  |-> en,
                   recognize |-> recog,
                   think     |-> th,
                   solve     |-> sol,
                   act       |-> [response_generated |-> act_text # ""],
                   attain    |-> att,
                   rest      |-> [llm_calls |-> calls, cycle_complete |-> TRUE]],
     metadata |-> [llm_calls |-> calls, tier |-> DictGet(recog, "tier"),
                   resistance |-> DictGet(recog, "resistance"),
                   thesis_proof_tier |-> DictGet(recog, "tier"),
                   thesis_proof_cost |-> sol.resistance]]

\* The inputs given to reason()
ReasonTexts ==
    { Text(str) : str \in {
        "",
        "2 + 2 = 4",
        "I think chocolate is the best flavor.",
        "My friend said Bitcoin will hit $200k this year.",
        "She said the law is wrong and false",
        "I think that is false and wrong",
        "We should always measure",
        "This is misleading spin",
        "Perhaps the market could crash",
        "The study measured 5 samples" } }
    \cup {LongText, FiftyWords, MediumText, TwentyWords}

AwareOf     == [t \in ReasonTexts |-> aware(t)]
RecognizeOf == [t \in ReasonTexts |-> recognize(t)]
SolveOf     == [t \in ReasonTexts |-> solve(t, RecognizeOf[t])]

(***************************************************************************)
(* GET /tiers: the tier table as the API reports it.                       *)
(***************************************************************************)
TIER_DESCRIPTIONS == <<
    "Self-evident axioms and tautologies",
    "Mathematical proofs and physical constants",
    "Logical deductions and syllogisms",
    "Established scientific laws and universal facts",
    "Empirical measurements and statistical findings",
    "Documentary evidence and historical records",
    "Context-dependent and domain-specific truths",
    "Time-dependent facts and predictions",
    "Testimonial evidence and reported claims",
    "Social consensus and cultural norms",
    "Personal beliefs and subjective experiences",
    "Speculation and hypothetical scenarios",
    "False or misleading claims (integrity violations)" >>

\* descriptions.get(tier_num, "Unknown tier")
get_tier_description(tier_num) ==
    IF tier_num \in 0..(Len(TIER_DESCRIPTIONS) - 1)
    THEN TIER_DESCRIPTIONS[tier_num + 1]
    ELSE "Unknown tier"

get_tiers ==
    LET tiers == [i \in 1..Len(TruthTier) |->
                    [tier        |-> TruthTier[i].tier_num,
                     name        |-> TruthTier[i].tier_name,
                     resistance  |-> TruthTier[i].resistance,
                     description |-> get_tier_description(TruthTier[i].tier_num)]]
    IN  [tiers  |-> tiers,
         count  |-> Len(tiers),
         thesis |-> "Truth is computationally cheap. Lies are expensive."]

(***************************************************************************)
(* The integrity check of the axiom registry.                              *)
(***************************************************************************)
\* "\n".join(lines)
RECURSIVE JoinLines(_)
JoinLines(lines) ==
    IF Len(lines) = 0 THEN <<>>
    ELSE IF Len(lines) = 1 THEN lines[1]
    ELSE lines[1] \o Text("\n") \o JoinLines(Tail(lines))

\* hashlib.sha3_256(data).hexdigest(): the digest is told apart by the bytes
\* hashed and by nothing else (no two byte strings share a digest)
Sha3Hex(data) == [sha3_256 |-> data]

\* the digest of a registry
FloorDigest(floor) == Sha3Hex(JoinLines(floor))

INTEGRITY_ERROR == "CRITICAL: Truth Floor integrity compromised!"

\* verify_truth_floor_integrity() on the registry `floor` with the digest
\* `floor_hash` taken when the module was loaded
verify_truth_floor_integrity(floor, floor_hash) ==
    IF FloorDigest(floor) # floor_hash
    THEN [raised |-> TRUE, error |-> INTEGRITY_ERROR]
    ELSE [raised |-> FALSE, value |-> TRUE]

\* no classification given; a dict not yet filled
NoArg == [tier |-> -1]
EmptyDict == [empty |-> TRUE]

(***************************************************************************)
(* Concurrent invocations of reason() on one engine.                       *)
(*                                                                         *)
(* A frame is the call frame of one invocation: its position, its          *)
(* argument, the locals of multidimensional_analysis, the reference sid to *)
(* the ReasoningState it constructed and, once it returned, its result.    *)
(* script is what the LLM answers to this invocation's calls, in order,    *)
(* and calls the number of calls it has made.  The heap holds the          *)
(* ReasoningState objects.                                                 *)
(***************************************************************************)
NInv == 2

Unset(d) == "empty" \in DOMAIN d

\* ReasoningState(input_problem=t); solution is None
NewReasoningState(t) ==
    [input_problem     |-> t,
     stage             |-> "AWARE",
     awareness         |-> EmptyDict,
     energy_allocation |-> EmptyDict,
     recognition       |-> EmptyDict,
     thinking          |-> <<>>,
     solution          |-> EmptyDict,
     action            |-> "",
     attainment        |-> EmptyDict,
     llm_calls         |-> 0]

\* the ReasoningState object invocation i works on: the one it constructed
StateId_engine_slot(i) == 1

StateId(i) == i

\* awareness.get("word_count", 0), awareness.get("epistemic_level", "a_posteriori")
AwarenessRead(aw) ==
    IF Unset(aw) THEN [word_count |-> 0, epistemic_level |-> "a_posteriori"] ELSE aw

\* str(e) of the exceptions that leave reason(): the KeyError of
\* classification["tier"] and the AttributeError of solution.verified
KEY_ERROR_TIER    == "'tier'"
NONE_HAS_NO_FIELD == "'NoneType' object has no attribute 'verified'"

\* an exception leaves reason()
Raise(f, st, error) ==
    [frame |-> [f EXCEPT !.pc = "raised", !.error = error], state |-> st]

\* One stage of reason(), or one pass of the loop of stage 4, by the
\* invocation with frame f on the ReasoningState st and the client cl.
StepReason(f, st, cl) ==
    CASE f.pc = "aware" ->
            [frame |-> [f EXCEPT !.pc = "energize"],
             state |-> [st EXCEPT !.stage = "AWARE",
                                  !.awareness = AwareOf[f.input_problem]]]
      [] f.pc = "energize" ->
            [frame |-> [f EXCEPT !.pc = "recognize"],
             state |-> [st EXCEPT !.stage = "ENERGIZE",
                                  !.energy_allocation = energize(AwarenessRead(st.awareness))]]
      [] f.pc = "recognize" ->
            [frame |-> [f EXCEPT !.pc = "think"],
             state |-> [st EXCEPT !.stage = "RECOGNIZE",
                                  !.recognition = RecognizeOf[f.input_problem]]]
      [] f.pc = "think" ->
            IF ~Unset(st.energy_allocation) /\ st.energy_allocation.requires_deep_analysis
            THEN [frame |-> [f EXCEPT !.pc = "think_call", !.analysis = <<>>, !.dim = 1],
                  state |-> [st EXCEPT !.stage = "THINK"]]
            ELSE [frame |-> [f EXCEPT !.pc = "solve"],
                  state |-> [st EXCEPT !.stage = "THINK", !.thinking = SKIPPED]]
      [] f.pc = "think_call" ->
            LET call  == LLMCall(cl, f.script[f.calls + 1])
                entry == AnalysisEntry(ANALYSIS_DIMENSIONS[f.dim], call)
                done  == f.dim = Len(ANALYSIS_DIMENSIONS)
                items == Append(f.analysis, [key |-> entry.dim, value |-> entry.text])
            IN  IF entry.raised THEN Raise([f EXCEPT !.calls = @ + 1], st, entry.text)
                ELSE [frame |-> [f EXCEPT !.calls = @ + 1, !.analysis = items,
                                          !.dim = @ + 1,
                                          !.pc = IF done THEN "solve" ELSE "think_call"],
                      state |-> IF done
                                THEN [st EXCEPT !.thinking = items,
                                                !.llm_calls = @ + Len(ANALYSIS_DIMENSIONS)]
                                ELSE st]
      [] f.pc = "solve" ->
            IF Unset(st.recognition) THEN Raise(f, [st EXCEPT !.stage = "SOLVE"], KEY_ERROR_TIER)
            ELSE [frame |-> [f EXCEPT !.pc = "act"],
                  state |-> [st EXCEPT !.stage = "SOLVE",
                                       !.solution =
                                           IF st.recognition = RecognizeOf[f.input_problem]
                                           THEN SolveOf[f.input_problem]
                                           ELSE solve(f.input_problem, st.recognition)]]
      [] f.pc = "act" ->
            IF Unset(st.solution)
            THEN Raise(f, [st EXCEPT !.stage = "ACT"], NONE_HAS_NO_FIELD)
            ELSE [frame |-> [f EXCEPT !.pc = "act_call"],
                  state |-> [st EXCEPT !.stage = "ACT"]]
      [] f.pc = "act_call" ->
            LET r == act(LLMCall(cl, f.script[f.calls + 1]))
            IN  IF r.raised
                THEN Raise([f EXCEPT !.calls = @ + 1], st, r.text)
                ELSE [frame |-> [f EXCEPT !.calls = @ + 1, !.pc = "attain"],
                      state |-> [st EXCEPT !.action = r.text, !.llm_calls = @ + 1]]
      [] f.pc = "attain" ->
            IF Unset(st.solution)
            THEN Raise(f, [st EXCEPT !.stage = "ATTAIN"], NONE_HAS_NO_FIELD)
            ELSE [frame |-> [f EXCEPT !.pc = "rest"],
                  state |-> [st EXCEPT !.stage = "ATTAIN",
                                       !.attainment = attain(st.solution)]]
      [] f.pc = "rest" ->
            IF Unset(st.solution)
            THEN Raise(f, [st EXCEPT !.stage = "REST"], NONE_HAS_NO_FIELD)
            ELSE [frame |-> [f EXCEPT !.pc = "returned",
                                      !.result = compile_result(
                                          st.input_problem, st.action, st.awareness,
                                          st.energy_allocation, st.recognition, st.thinking,
                                          st.solution, st.attainment, st.llm_calls)],
                  state |-> [st EXCEPT !.stage = "REST"]]

\* the frame of an invocation about to start
NewFrame(t, script) ==
    [pc |-> "begin", input_problem |-> t, script |-> script, calls |-> 0, sid |-> 0,
     analysis |-> <<>>, dim |-> 1, result |-> EmptyDict, error |-> NoneVal]

\* reason(t) run alone, from the construction of its state to its end
RECURSIVE RunFrom(_, _, _), RunOn(_, _)
RunFrom(f, st, cl) ==
    IF f.pc \in {"returned", "raised"} THEN f
    ELSE RunOn(StepReason(f, st, cl), cl)

RunOn(next, cl) == RunFrom(next.frame, next.state, cl)

RunAlone(t, script, cl) ==
    RunFrom([NewFrame(t, script) EXCEPT !.pc = "aware"], NewReasoningState(t), cl)

\* the inputs and the LLM answers of the concurrent invocations
ConcTexts == {Text("2 + 2 = 4"), Text("We should always measure")}

OkAlpha == [ok |-> TRUE, text |-> "alpha"]
OkBeta  == [ok |-> TRUE, text |-> "beta"]
Timeout == [ok |-> FALSE, text |-> "timeout"]

SCRIPTS == {
    <<OkAlpha, OkAlpha, OkAlpha, OkAlpha, OkAlpha, OkAlpha, OkAlpha, OkAlpha>>,
    <<Timeout, OkBeta, OkBeta, Timeout, OkBeta, OkBeta, OkBeta, OkBeta>> }

RunAloneOf ==
    [t \in ConcTexts |-> [script \in SCRIPTS |-> [cl \in CLIENTS |->
        RunAlone(t, script, cl)]]]

(***************************************************************************)
(* State.                                                                  *)
(*                                                                         *)
(* claim_text, op, arg, ret: a caller of the classification core holds one *)
(* claim text and calls detect, classify, check_truth_floor and            *)
(* verification_cascade on it in any order; op, arg and ret are the last   *)
(* call, the classification it was given and what it returned.             *)
(*                                                                         *)
(* The other variables are one invocation of reason(): pc is its position, *)
(* the ReasoningState fields keep their names, analysis and dim are the    *)
(* locals of multidimensional_analysis, llm_log lists the LLM calls made,  *)
(* stages_run the values state.stage took, result what reason() returned   *)
(* and exc the exception that left it.                                     *)
(*                                                                         *)
(* truth_floor and truth_floor_hash are the module attributes TRUTH_FLOOR  *)
(* and TRUTH_FLOOR_HASH as they are now; tampers counts the changes made   *)
(* to the registry from outside.  frames and heap are the call frames and  *)
(* the ReasoningState objects of concurrent invocations.                   *)
(***************************************************************************)
VARIABLES claim_text, op, arg, ret,
          pc, client, input_problem, stage, awareness, energy_allocation,
          recognition, thinking, solution, action, attainment, llm_calls,
          analysis, dim, llm_log, stages_run, result, exc,
          truth_floor, truth_floor_hash, tampers,
          frames, heap,
          LLM_PROVIDER, LLM_API_KEY, LLM_MODEL, environ, engines, init_call, reason_call,
          running, api_engine, response

cvars == <<claim_text, op, arg, ret>>
rvars == <<pc, client, input_problem, stage, awareness, energy_allocation,
           recognition, thinking, solution, action, attainment, llm_calls,
           analysis, dim, llm_log, stages_run, result, exc>>
mvars == <<truth_floor, truth_floor_hash, tampers>>
kvars == <<frames, heap>>
evars == <<LLM_PROVIDER, LLM_API_KEY, LLM_MODEL, environ, engines, init_call, reason_call,
           running, api_engine, response>>
vars == <<cvars, rvars, mvars, kvars, evars>>


\* ReasoningState(input_problem=t) on an engine whose client is cl
FreshState(t, cl) ==
    /\ client = cl
    /\ input_problem = t
    /\ stage = "AWARE"
    /\ awareness = EmptyDict
    /\ energy_allocation = EmptyDict
    /\ recognition = EmptyDict
    /\ thinking = <<>>
    /\ solution = NoneVal
    /\ action = ""
    /\ attainment = EmptyDict
    /\ llm_calls = 0
    /\ analysis = <<>>
    /\ dim = 1
    /\ llm_log = <<>>
    /\ stages_run = <<>>
    /\ result = EmptyDict
    /\ exc = NoneVal

CoreIdle ==
    /\ op = "none"
    /\ arg = NoArg
    /\ ret = NoneVal

\* The module as loaded: the registry and its digest
ModuleLoaded ==
    /\ truth_floor = TRUTH_FLOOR
    /\ truth_floor_hash = FloorDigest(TRUTH_FLOOR)
    /\ tampers = 0

\* no concurrent invocation
NoFrames ==
    /\ frames = <<>>
    /\ heap = <<>>

\* The process configuration when no LLM_* variable is set in the
\* environment, and no engine constructed
NoEngines ==
    /\ LLM_PROVIDER = "openai"
    /\ LLM_API_KEY = ""
    /\ LLM_MODEL = "gpt-4"
    /\ environ = NoneVal
    /\ engines = <<>>
    /\ init_call = EmptyDict
    /\ reason_call = EmptyDict
    /\ running = EmptyDict
    /\ api_engine = 0
    /\ response = EmptyDict

Init ==
    /\ ModuleLoaded
    /\ NoEngines
    /\ NoFrames
    /\ claim_text \in Texts
    /\ CoreIdle
    /\ pc = "idle"
    /\ FreshState(<<>>, OllamaShape)

CallDetect ==
    /\ op' = "detect"
    /\ arg' = NoArg
    /\ ret' = DetectOf[claim_text]
    /\ UNCHANGED <<claim_text, rvars, mvars, kvars, evars>>

CallClassify ==
    /\ op' = "classify"
    /\ arg' = NoArg
    /\ ret' = ClassifyOf[claim_text]
    /\ UNCHANGED <<claim_text, rvars, mvars, kvars, evars>>

CallCheckTruthFloor ==
    /\ op' = "check_truth_floor"
    /\ arg' = NoArg
    /\ ret' = TruthFloorOf[claim_text]
    /\ UNCHANGED <<claim_text, rvars, mvars, kvars, evars>>

CallVerificationCascade ==
    \E c \in ClsArgsOf[claim_text] :
        /\ op' = "verification_cascade"
        /\ arg' = c
        /\ ret' = CascadeOf[claim_text][c]
        /\ UNCHANGED <<claim_text, rvars, mvars, kvars, evars>>

\* GET /tiers
GetTiers ==
    /\ op' = "get_tiers"
    /\ arg' = NoArg
    /\ ret' = get_tiers
    /\ UNCHANGED <<claim_text, rvars, mvars, kvars, evars>>

\* POST /classify.  str() of the HTTPException raised for a missing text is
\* the library's: "<status_code>: <detail>" where HTTPException defines
\* __str__, the empty string where it does not.
HTTPExceptionStr(status_text, detail) == {status_text \o ": " \o detail, ""}

\* request.get("text", "")
RequestText(request) == IF "text" \in DOMAIN request THEN request.text ELSE <<>>

\* classify_text(request): the response, and how many times the classifier
\* ran.  The HTTPException(400) is raised inside the try block, whose except
\* clause catches every Exception and raises HTTPException(500) from it.
classify_text(request, exc_str) ==
    LET text == RequestText(request)
    IN  IF text = <<>>
        THEN [status_code      |-> 500,
              detail           |-> "Classification failed: " \o exc_str,
              classifier_calls |-> 0]
        ELSE [status_code      |-> 200,
              text             |-> text,
              classification   |-> ClassifyOf[text],
              classifier_calls |-> 1]

\* the request bodies for the text at hand: no "text" key, or the text
ClassifyRequests(t) == {EmptyDict, [text |-> t]}

ClassifyText ==
    /\ op' = "classify_text"
    /\ \E request \in ClassifyRequests(claim_text),
          exc_str \in HTTPExceptionStr("400", "Text is required") :
          /\ arg' = request
          /\ ret' = classify_text(request, exc_str)
    /\ UNCHANGED <<claim_text, rvars, mvars, kvars, evars>>

Next ==
    \/ CallDetect
    \/ CallClassify
    \/ CallCheckTruthFloor
    \/ CallVerificationCascade
    \/ GetTiers
    \/ ClassifyText

Spec == Init /\ [][Next]_vars

(***************************************************************************)
(* reason(): one action per stage, and one per LLM call of stage 4.        *)
(***************************************************************************)
InitReason ==
    /\ ModuleLoaded
    /\ NoEngines
    /\ NoFrames
    /\ claim_text = <<>>
    /\ CoreIdle
    /\ pc = "aware"
    /\ \E t \in ReasonTexts, cl \in CLIENTS : FreshState(t, cl)

Aware ==
    /\ pc = "aware"
    /\ stage' = "AWARE"
    /\ stages_run' = Append(stages_run, "AWARE")
    /\ awareness' = AwareOf[input_problem]
    /\ pc' = "energize"
    /\ UNCHANGED <<cvars, mvars, kvars, evars, client, input_problem, energy_allocation, recognition,
                   thinking, solution, action, attainment, llm_calls, analysis,
                   dim, llm_log, result, exc>>

Energize ==
    /\ pc = "energize"
    /\ stage' = "ENERGIZE"
    /\ stages_run' = Append(stages_run, "ENERGIZE")
    /\ energy_allocation' = energize(awareness)
    /\ pc' = "recognize"
    /\ UNCHANGED <<cvars, mvars, kvars, evars, client, input_problem, awareness, recognition,
                   thinking, solution, action, attainment, llm_calls, analysis,
                   dim, llm_log, result, exc>>

Recognize ==
    /\ pc = "recognize"
    /\ stage' = "RECOGNIZE"
    /\ stages_run' = Append(stages_run, "RECOGNIZE")
    /\ recognition' = RecognizeOf[input_problem]
    /\ pc' = "think"
    /\ UNCHANGED <<cvars, mvars, kvars, evars, client, input_problem, awareness, energy_allocation,
                   thinking, solution, action, attainment, llm_calls, analysis,
                   dim, llm_log, result, exc>>

\* Stage 4 begins: the analysis is entered, or skipped
Think ==
    /\ pc = "think"
    /\ stage' = "THINK"
    /\ stages_run' = Append(stages_run, "THINK")
    /\ IF energy_allocation.requires_deep_analysis
       THEN /\ pc' = "think_call"
            /\ analysis' = <<>>
            /\ dim' = 1
            /\ UNCHANGED thinking
       ELSE /\ pc' = "solve"
            /\ thinking' = SKIPPED
            /\ UNCHANGED <<analysis, dim>>
    /\ UNCHANGED <<cvars, mvars, kvars, evars, client, input_problem, awareness, energy_allocation,
                   recognition, solution, action, attainment, llm_calls,
                   llm_log, result, exc>>

\* One pass of the loop of multidimensional_analysis; after the last one the
\* function returns, and reason() stores the analysis and counts the calls.
ThinkCall ==
    /\ pc = "think_call"
    /\ \E outcome \in OutcomesFor(client) :
        LET call  == LLMCall(client, outcome)
            entry == AnalysisEntry(ANALYSIS_DIMENSIONS[dim], call)
            done  == dim = Len(ANALYSIS_DIMENSIONS)
        IN  /\ llm_log' = Append(llm_log, [purpose |-> ANALYSIS_DIMENSIONS[dim],
                                            branch |-> call.branch,
                                            ok |-> call.ok, text |-> call.text,
                                            transport |-> outcome])
            /\ IF entry.raised
               THEN /\ pc' = "raised"
                    /\ exc' = call.text
                    /\ UNCHANGED <<analysis, dim, thinking, llm_calls>>
               ELSE /\ analysis' = Append(analysis, [key |-> entry.dim, value |-> entry.text])
                    /\ dim' = dim + 1
                    /\ pc' = IF done THEN "solve" ELSE "think_call"
                    /\ thinking' = IF done THEN analysis' ELSE thinking
                    /\ llm_calls' = IF done
                                    THEN llm_calls + Len(ANALYSIS_DIMENSIONS)
                                    ELSE llm_calls
                    /\ UNCHANGED exc
    /\ UNCHANGED <<cvars, mvars, kvars, evars, client, input_problem, stage, stages_run, awareness,
                   energy_allocation, recognition, solution, action, attainment,
                   result>>

Solve ==
    /\ pc = "solve"
    /\ stage' = "SOLVE"
    /\ stages_run' = Append(stages_run, "SOLVE")
    /\ solution' = IF recognition = RecognizeOf[input_problem]
                   THEN SolveOf[input_problem]
                   ELSE solve(input_problem, recognition)
    /\ pc' = "act"
    /\ UNCHANGED <<cvars, mvars, kvars, evars, client, input_problem, awareness, energy_allocation,
                   recognition, thinking, action, attainment, llm_calls, analysis,
                   dim, llm_log, result, exc>>

\* Stage 6 begins: the stage is written, _act builds its prompt and makes
\* its call
Act ==
    /\ pc = "act"
    /\ stage' = "ACT"
    /\ stages_run' = Append(stages_run, "ACT")
    /\ pc' = "act_call"
    /\ UNCHANGED <<cvars, mvars, kvars, evars, client, input_problem, awareness, energy_allocation,
                   recognition, thinking, solution, action, attainment, llm_calls,
                   analysis, dim, llm_log, result, exc>>

\* The call of _act comes back; reason() stores the response and counts
\* the call.
ActCall ==
    /\ pc = "act_call"
    /\ \E outcome \in OutcomesFor(client) :
        LET call == LLMCall(client, outcome)
            r    == act(call)
        IN  /\ llm_log' = Append(llm_log, [purpose |-> "response",
                                            branch |-> call.branch,
                                            ok |-> call.ok, text |-> call.text,
                                            transport |-> outcome])
            /\ IF r.raised
               THEN /\ pc' = "raised"
                    /\ exc' = call.text
                    /\ UNCHANGED <<action, llm_calls>>
               ELSE /\ pc' = "attain"
                    /\ action' = r.text
                    /\ llm_calls' = llm_calls + 1
                    /\ UNCHANGED exc
    /\ UNCHANGED <<cvars, mvars, kvars, evars, client, input_problem, stage, stages_run, awareness,
                   energy_allocation, recognition, thinking, solution, attainment,
                   analysis, dim, result>>

Attain ==
    /\ pc = "attain"
    /\ stage' = "ATTAIN"
    /\ stages_run' = Append(stages_run, "ATTAIN")
    /\ attainment' = attain(solution)
    /\ pc' = "rest"
    /\ UNCHANGED <<cvars, mvars, kvars, evars, client, input_problem, awareness, energy_allocation,
                   recognition, thinking, solution, action, llm_calls, analysis,
                   dim, llm_log, result, exc>>

Rest ==
    /\ pc = "rest"
    /\ stage' = "REST"
    /\ stages_run' = Append(stages_run, "REST")
    /\ result' = compile_result(input_problem, action, awareness, energy_allocation,
                                recognition, thinking, solution, attainment, llm_calls)
    /\ pc' = "returned"
    /\ UNCHANGED <<cvars, mvars, kvars, evars, client, input_problem, awareness, energy_allocation,
                   recognition, thinking, solution, action, attainment, llm_calls,
                   analysis, dim, llm_log, exc>>

NextReason ==
    \/ Aware
    \/ Energize
    \/ Recognize
    \/ Think
    \/ ThinkCall
    \/ Solve
    \/ Act
    \/ ActCall
    \/ Attain
    \/ Rest

SpecReason == InitReason /\ [][NextReason]_vars


(***************************************************************************)
(* SpecConcurrent: NInv invocations of reason() on one engine, their       *)
(* stages interleaved in any order.                                        *)
(***************************************************************************)
InitConcurrent ==
    /\ ModuleLoaded
    /\ NoEngines
    /\ claim_text = <<>>
    /\ CoreIdle
    /\ pc = "idle"
    /\ \E cl \in CLIENTS : FreshState(<<>>, cl)
    /\ frames \in [1..NInv -> { NewFrame(t, script) : t \in ConcTexts, script \in SCRIPTS }]
    /\ heap = [sid \in 1..NInv |-> EmptyDict]

\* state = ReasoningState(input_problem=input_problem)
Begin(i) ==
    /\ frames[i].pc = "begin"
    /\ frames' = [frames EXCEPT ![i].pc = "aware", ![i].sid = StateId(i)]
    /\ heap' = [heap EXCEPT ![StateId(i)] = NewReasoningState(frames[i].input_problem)]
    /\ UNCHANGED <<cvars, rvars, mvars, evars>>

\* invocation i keeps the frame and writes the state a stage left
Advance(i, next) ==
    /\ frames' = [frames EXCEPT ![i] = next.frame]
    /\ heap' = [heap EXCEPT ![frames[i].sid] = next.state]

\* the next stage of invocation i
Stage(i) ==
    /\ frames[i].pc \notin {"begin", "returned", "raised"}
    /\ Advance(i, StepReason(frames[i], heap[frames[i].sid], client))
    /\ UNCHANGED <<cvars, rvars, mvars, evars>>

NextConcurrent ==
    \/ \E i \in 1..NInv : Begin(i)
    \/ \E i \in 1..NInv : Stage(i)

SpecConcurrent == InitConcurrent /\ [][NextConcurrent]_vars

(***************************************************************************)
(* The registry under change from outside: verify_truth_floor_integrity,   *)
(* the API endpoints that call it, and a party that rebinds TRUTH_FLOOR.   *)
(***************************************************************************)
MaxTampers == 2

\* The registries one change away from `floor`: axiom j with a space
\* appended, axiom j lowered, axiom j dropped, axioms j and j+1 made one
\* axiom of two lines; or the registry of the source put back.
Tampered(floor) ==
    ( { [floor EXCEPT ![j] = @ \o Text(" ")] : j \in 1..Len(floor) }
      \cup { [floor EXCEPT ![j] = Lower(@)] : j \in 1..Len(floor) }
      \cup { SubSeq(floor, 1, j - 1) \o SubSeq(floor, j + 1, Len(floor)) :
                j \in 1..Len(floor) }
      \cup { SubSeq(floor, 1, j - 1) \o <<floor[j] \o Text("\n") \o floor[j + 1]>>
                \o SubSeq(floor, j + 2, Len(floor)) : j \in 1..(Len(floor) - 1) }
      \cup {TRUTH_FLOOR} ) \ {floor}

InitFloor ==
    /\ ModuleLoaded
    /\ NoEngines
    /\ NoFrames
    /\ claim_text = <<>>
    /\ CoreIdle
    /\ pc = "idle"
    /\ FreshState(<<>>, OllamaShape)

Tamper ==
    /\ tampers < MaxTampers
    /\ \E floor \in Tampered(truth_floor) : truth_floor' = floor
    /\ tampers' = tampers + 1
    /\ op' = "tamper"
    /\ arg' = NoArg
    /\ ret' = NoneVal
    /\ UNCHANGED <<claim_text, rvars, truth_floor_hash, kvars, evars>>

VerifyIntegrity ==
    /\ op' = "verify_truth_floor_integrity"
    /\ arg' = NoArg
    /\ ret' = verify_truth_floor_integrity(truth_floor, truth_floor_hash)
    /\ UNCHANGED <<claim_text, rvars, mvars, kvars, evars>>

\* GET /health.  api.py imports TRUTH_FLOOR by name, so the handler counts
\* the registry as it was at import, while the integrity check reads the
\* engine module's attribute.
HealthCheck ==
    /\ op' = "health_check"
    /\ arg' = NoArg
    /\ LET v == verify_truth_floor_integrity(truth_floor, truth_floor_hash)
       IN  ret' = IF v.raised
                  THEN [status_code |-> 500,
                        detail |-> "Health check failed: " \o v.error]
                  ELSE [status_code |-> 200, status |-> "ok",
                        truth_floor_verified |-> v.value,
                        truth_floor_axioms |-> Len(TRUTH_FLOOR)]
    /\ UNCHANGED <<claim_text, rvars, mvars, kvars, evars>>

\* GET /truth-floor: the axioms and their count are those of the name api.py
\* imported; the exception of the check is not caught in the handler
GetTruthFloor ==
    /\ op' = "get_truth_floor"
    /\ arg' = NoArg
    /\ LET v == verify_truth_floor_integrity(truth_floor, truth_floor_hash)
       IN  ret' = IF v.raised
                  THEN [status_code |-> 500, raised |-> v.error]
                  ELSE [status_code |-> 200, axioms |-> TRUTH_FLOOR,
                        count |-> Len(TRUTH_FLOOR), integrity_verified |-> v.value]
    /\ UNCHANGED <<claim_text, rvars, mvars, kvars, evars>>

NextFloor ==
    \/ Tamper
    \/ VerifyIntegrity
    \/ HealthCheck
    \/ GetTruthFloor

SpecFloor == InitFloor /\ [][NextFloor]_vars

(***************************************************************************)
(* Construction of engines: the module attributes read from the            *)
(* environment at import, get_llm_client, and                              *)
(* SovereignReasoningEngine.__init__.                                      *)
(***************************************************************************)
MaxEngines == 2

KNOWN_PROVIDERS == {"openai", "xai", "anthropic", "ollama"}

\* values of LLM_PROVIDER in the environment, and of the provider argument
PROVIDER_NAMES == KNOWN_PROVIDERS \cup {"bogus"}

\* Python truth of an optional string, and `a or b`
Truthy(x) == x # NoneVal /\ x # ""
Or(a, b) == IF Truthy(a) THEN a ELSE b

\* The client the if-chain of get_llm_client builds for a provider name and
\* a key, or the ValueError of its else branch
LLMClient(provider, key) ==
    IF provider = "openai"
    THEN [raised |-> FALSE,
          client |-> [class |-> "openai.OpenAI", api_key |-> key, base_url |-> NoneVal]]
    ELSE IF provider = "xai"
    THEN [raised |-> FALSE,
          client |-> [class |-> "openai.OpenAI", api_key |-> key,
                      base_url |-> "https://api.x.ai/v1"]]
    ELSE IF provider = "anthropic"
    THEN [raised |-> FALSE,
          client |-> [class |-> "anthropic.Anthropic", api_key |-> key,
                      base_url |-> NoneVal]]
    ELSE IF provider = "ollama"
    THEN [raised |-> FALSE,
          client |-> [class |-> "OllamaClient", api_key |-> NoneVal,
                      base_url |-> "http://localhost:11434"]]
    ELSE [raised |-> TRUE, error |-> "Unknown LLM provider: " \o provider]

\* get_llm_client(): it takes no argument and reads the module attributes
get_llm_client == LLMClient(LLM_PROVIDER, LLM_API_KEY)

\* what hasattr and a call can tell of a client of each class
ShapeOf(cl) ==
    IF cl.class = "OllamaClient" THEN OllamaShape
    ELSE IF cl.class = "anthropic.Anthropic" THEN AnthropicShape
    ELSE OpenAIShape

\* The process starts: the module is imported with LLM_PROVIDER and
\* LLM_API_KEY set in the environment
InitConstruct ==
    /\ ModuleLoaded
    /\ NoFrames
    /\ claim_text = <<>>
    /\ CoreIdle
    /\ pc = "idle"
    /\ FreshState(<<>>, OllamaShape)
    /\ LLM_PROVIDER \in PROVIDER_NAMES
    /\ LLM_API_KEY \in {"", "envkey"}
    /\ LLM_MODEL = "gpt-4"
    /\ environ = IF LLM_API_KEY = "" THEN NoneVal ELSE LLM_API_KEY
    /\ engines = <<>>
    /\ init_call = EmptyDict
    /\ reason_call = EmptyDict
    /\ running = EmptyDict
    /\ api_engine = 0
    /\ response = EmptyDict

\* What __init__ leaves when get_llm_client gave `built` and
\* verify_truth_floor_integrity gave `check`: the value in os.environ, the
\* record of the call, and the engines there are
EngineInitOf(call, built, check, raised, error) ==
    [environ |-> IF Truthy(call.api_key) THEN call.api_key ELSE environ,
     raised  |-> raised,
     error   |-> error,
     call    |-> [args |-> call, raised |-> raised, error |-> error,
                  engine |-> IF raised THEN 0 ELSE Len(engines) + 1],
     engines |-> IF raised THEN engines
                 ELSE Append(engines,
                             [provider |-> Or(call.provider, LLM_PROVIDER),
                              model    |-> Or(call.model, LLM_MODEL),
                              client   |-> built.client])]

\* the exception that leaves __init__, if any: the one of get_llm_client,
\* else the one of verify_truth_floor_integrity
EngineInitWith(call, built, check) ==
    EngineInitOf(call, built, check, built.raised \/ check.raised,
                 IF built.raised THEN built.error
                 ELSE IF check.raised THEN check.error ELSE NoneVal)

\* SovereignReasoningEngine.__init__(provider, api_key, model)
EngineInit(provider, api_key, model) ==
    EngineInitWith([provider |-> provider, api_key |-> api_key, model |-> model],
                   get_llm_client,
                   verify_truth_floor_integrity(truth_floor, truth_floor_hash))

\* the constructor runs: what it writes
Constructed(init) ==
    /\ environ' = init.environ
    /\ engines' = init.engines
    /\ init_call' = init.call

\* SovereignReasoningEngine(provider, api_key, model), called by a client of
\* the module
Construct(provider, api_key, model) ==
    /\ Len(engines) < MaxEngines
    /\ Constructed(EngineInit(provider, api_key, model))
    /\ UNCHANGED <<cvars, rvars, mvars, kvars, LLM_PROVIDER, LLM_API_KEY, LLM_MODEL,
                   reason_call, running, api_engine, response>>

\* api.get_engine(): the module-level engine, built on first use
GetEngine ==
    /\ IF api_engine # 0
       THEN /\ response' = [fn |-> "get_engine", raised |-> FALSE, engine |-> api_engine]
            /\ UNCHANGED <<environ, engines, init_call, api_engine>>
       ELSE /\ Len(engines) < MaxEngines
            /\ Constructed(EngineInit(NoneVal, NoneVal, NoneVal))
            /\ api_engine' = init_call'.engine
            /\ response' = [fn |-> "get_engine", raised |-> init_call'.raised,
                            engine |-> init_call'.engine]
    /\ UNCHANGED <<cvars, rvars, mvars, kvars, LLM_PROVIDER, LLM_API_KEY, LLM_MODEL,
                   reason_call, running>>

\* whether reason() stands still at the frame f: it waits for the transport
\* to answer a call, or it has ended
Waits(f, cl) ==
    \/ f.pc \in {"returned", "raised"}
    \/ f.pc \in {"think_call", "act_call"} /\ ReachesTransport(cl)

\* reason() takes a step from the frame f and the state st, and runs on
\* until it stands still
RECURSIVE RunToWait(_, _, _), RunToWaitOn(_, _)
RunToWait(f, st, cl) == RunToWaitOn(StepReason(f, st, cl), cl)

RunToWaitOn(next, cl) ==
    IF Waits(next.frame, cl) THEN next
    ELSE RunToWait(next.frame, next.state, cl)

\* the places where reason() stands still after the one `at`
RECURSIVE WaitsAfter(_, _), WaitsFrom(_, _)
WaitsAfter(at, cl) ==
    IF at.frame.pc \in {"returned", "raised"} THEN <<>>
    ELSE WaitsFrom(RunToWait(at.frame, at.state, cl), cl)

WaitsFrom(at, cl) == <<at>> \o WaitsAfter(at, cl)

\* reason(t) on an engine whose client is cl, the transport answering as in
\* `script`: the frame and the ReasoningState at each wait and at the end
WaitsOf ==
    [t \in ConcTexts |-> [script \in SCRIPTS |-> [cl \in CLIENTS |->
        WaitsAfter([frame |-> [NewFrame(t, script) EXCEPT !.pc = "aware"],
                    state |-> NewReasoningState(t)], cl)]]]

\* what the caller of reason() makes of its end: api.reason turns the result
\* into a response and every exception into HTTP 500, sovereign_reason
\* returns what reason() returns
ResponseOf(via, f) ==
    IF via = "api.reason"
    THEN IF f.pc = "raised"
         THEN [fn |-> via, status_code |-> 500, detail |-> "Reasoning failed: " \o f.error]
         ELSE [fn |-> via, status_code |-> 200, detail |-> NoneVal]
    ELSE [fn |-> via, raised |-> f.pc = "raised"]

\* The call of reason() `call` stands at the place call.at of `waits`: it
\* waits there for the transport, or it has ended and its caller goes on.
\* reason_call is the outcome of the latest call of reason(), unset while
\* one is under way, and a call that starts clears the response of the
\* call before it.
SettleAt(call, waits) ==
    IF call.at = Len(waits)
    THEN /\ running' = EmptyDict
         /\ reason_call' = [engine   |-> call.engine,
                            provider |-> engines'[call.engine].provider,
                            raised   |-> waits[call.at].frame.pc = "raised",
                            result   |-> waits[call.at].frame.result]
         /\ response' = IF call.via = "reason" THEN response
                        ELSE ResponseOf(call.via, waits[call.at].frame)
    ELSE /\ running' = call
         /\ reason_call' = EmptyDict
         /\ response' = IF call.at = 1 THEN EmptyDict ELSE response

Settle(call) ==
    SettleAt(call, WaitsOf[call.input_problem][call.script]
                          [ShapeOf(engines'[call.engine].client)])

\* reason(t) starts on the engine i of engines' and runs to its first wait
Started(via, i, t, script) ==
    Settle([via |-> via, engine |-> i, input_problem |-> t, script |-> script, at |-> 1])

\* engines[i].reason(t), called by a client of the module; the transport
\* answers its calls as in `script`
EngineReason(i, t, script) ==
    /\ Unset(running)
    /\ i \in 1..Len(engines)
    /\ UNCHANGED <<environ, engines, init_call, api_engine>>
    /\ Started("reason", i, t, script)
    /\ UNCHANGED <<cvars, rvars, mvars, kvars, LLM_PROVIDER, LLM_API_KEY, LLM_MODEL>>

\* the transport answers the call the running reason() waits on, and
\* reason() runs on to its next call or to its end
Resume ==
    /\ ~Unset(running)
    /\ UNCHANGED <<environ, engines, init_call, api_engine>>
    /\ Settle([running EXCEPT !.at = @ + 1])
    /\ UNCHANGED <<cvars, rvars, mvars, kvars, LLM_PROVIDER, LLM_API_KEY, LLM_MODEL>>

\* The caller `via` has its engine, the engine i of engines', and reason(t)
\* starts on it; or the constructor raised and its exception is the
\* caller's outcome: HTTP 500 for POST /reason
StartOrFail(via, i, t, script) ==
    IF i = 0
    THEN /\ response' = IF via = "api.reason"
                        THEN [fn |-> via, status_code |-> 500,
                              detail |-> "Reasoning failed: " \o init_call'.error]
                        ELSE [fn |-> via, raised |-> TRUE]
         /\ UNCHANGED <<running, reason_call>>
    ELSE Started(via, i, t, script)

\* POST /reason: an engine of its own when the request names a provider, a
\* key or a model, the module-level engine otherwise, built on first use
ApiReason(provider, api_key, model, t, script) ==
    /\ Unset(running)
    /\ IF Truthy(provider) \/ Truthy(api_key) \/ Truthy(model)
       THEN /\ Len(engines) < MaxEngines
            /\ Constructed(EngineInit(provider, api_key, model))
            /\ UNCHANGED api_engine
       ELSE IF api_engine = 0
       THEN /\ Len(engines) < MaxEngines
            /\ Constructed(EngineInit(NoneVal, NoneVal, NoneVal))
            /\ api_engine' = init_call'.engine
       ELSE UNCHANGED <<environ, engines, init_call, api_engine>>
    /\ StartOrFail("api.reason",
                   IF Truthy(provider) \/ Truthy(api_key) \/ Truthy(model)
                   THEN init_call'.engine ELSE api_engine',
                   t, script)
    /\ UNCHANGED <<cvars, rvars, mvars, kvars, LLM_PROVIDER, LLM_API_KEY, LLM_MODEL>>

\* sovereign_reason(t, provider=..., api_key=..., model=...)
SovereignReason(provider, api_key, model, t, script) ==
    /\ Unset(running)
    /\ Len(engines) < MaxEngines
    /\ Constructed(EngineInit(provider, api_key, model))
    /\ StartOrFail("sovereign_reason", init_call'.engine, t, script)
    /\ UNCHANGED <<cvars, rvars, mvars, kvars, LLM_PROVIDER, LLM_API_KEY, LLM_MODEL,
                   api_engine>>

\* the arguments given to the constructor, to POST /reason and to
\* sovereign_reason: none, a provider, a key, a model, or all three
ENGINE_ARGS ==
    { [provider |-> p, api_key |-> NoneVal, model |-> NoneVal] :
        p \in PROVIDER_NAMES \cup {NoneVal} } \cup
    { [provider |-> NoneVal, api_key |-> "argkey", model |-> NoneVal],
      [provider |-> NoneVal, api_key |-> NoneVal, model |-> "grok-3"],
      [provider |-> "anthropic", api_key |-> "argkey", model |-> "grok-3"] }

NextConstruct ==
    \/ \E a \in ENGINE_ARGS : Construct(a.provider, a.api_key, a.model)
    \/ GetEngine
    \/ \E i \in 1..MaxEngines, t \in ConcTexts, script \in SCRIPTS : EngineReason(i, t, script)
    \/ Resume
    \/ \E a \in ENGINE_ARGS, t \in ConcTexts, script \in SCRIPTS :
          ApiReason(a.provider, a.api_key, a.model, t, script)
    \/ \E a \in ENGINE_ARGS, t \in ConcTexts, script \in SCRIPTS :
          SovereignReason(a.provider, a.api_key, a.model, t, script)

SpecConstruct == InitConstruct /\ [][NextConstruct]_vars

(***************************************************************************)
(* Claims about construction, checked under SpecConstruct.                 *)
(***************************************************************************)
\* C20: a constructor call whose configured provider, the provider argument
\* when given and the process configuration otherwise, is not one of openai,
\* xai, anthropic, ollama fails; the client of a constructed engine is the
\* client for that engine's provider with the given API key; and no
\* reason() call runs on an engine whose provider is unknown.
C20_ConstructionChecksProvider ==
    /\ ~Unset(init_call) =>
          LET configured == IF init_call.args.provider # NoneVal
                            THEN init_call.args.provider ELSE LLM_PROVIDER
              given_key  == IF init_call.args.api_key # NoneVal
                            THEN init_call.args.api_key ELSE LLM_API_KEY
          IN  /\ configured \notin KNOWN_PROVIDERS => init_call.raised
              /\ ~init_call.raised =>
                    LET self == engines[init_call.engine]
                    IN  /\ self.provider = configured
                        /\ self.client = LLMClient(self.provider, given_key).client
    /\ ~Unset(reason_call) => reason_call.provider \in KNOWN_PROVIDERS

\* What the constructor does instead: it fails exactly when the LLM_PROVIDER
\* of the process is unknown, whatever the provider argument, and the client
\* is the one for the process's LLM_PROVIDER and LLM_API_KEY as read at
\* import.
C20_ClientFollowsProcessConfiguration ==
    ~Unset(init_call) =>
        /\ init_call.raised <=> LLM_PROVIDER \notin KNOWN_PROVIDERS
        /\ ~init_call.raised =>
              /\ engines[init_call.engine].provider =
                    Or(init_call.args.provider, LLM_PROVIDER)
              /\ engines[init_call.engine].client =
                    LLMClient(LLM_PROVIDER, LLM_API_KEY).client

\* an engine constructed with provider "bogus" in a process configured for
\* ollama, and reason() has run on it
C20_UnknownProviderEngineRuns ==
    /\ ~Unset(reason_call)
    /\ reason_call.provider = "bogus"
    /\ engines[reason_call.engine].client.class = "OllamaClient"
    /\ LLM_PROVIDER = "ollama"
    /\ reason_call.result.response = "alpha"

\* provider "anthropic" and api_key "argkey" given in a process configured
\* for openai with key "envkey": the client is an OpenAI client with "envkey"
C20_ArgumentsIgnored ==
    /\ ~Unset(init_call)
    /\ ~init_call.raised
    /\ init_call.args.provider = "anthropic"
    /\ init_call.args.api_key = "argkey"
    /\ engines[init_call.engine].provider = "anthropic"
    /\ engines[init_call.engine].client =
          [class |-> "openai.OpenAI", api_key |-> "envkey", base_url |-> NoneVal]
    /\ environ = "argkey"

\* provider "ollama" given in a process configured for an unknown provider:
\* the constructor raises
C20_ValidArgumentFails ==
    /\ ~Unset(init_call)
    /\ init_call.args.provider = "ollama"
    /\ init_call.raised
    /\ init_call.error = "Unknown LLM provider: bogus"

(***************************************************************************)
(* Claims about the registry, checked under SpecFloor.                     *)
(***************************************************************************)
\* C12: verify_truth_floor_integrity returns true when the registry is the
\* registry of initialization, and raises when any axiom's text differs
\* from its text at initialization.
C12_AnyChangeTripsTheCheck ==
    op = "verify_truth_floor_integrity" =>
        (ret.raised <=> truth_floor # TRUTH_FLOOR)

(***************************************************************************)
(* Claims about concurrent invocations, checked under SpecConcurrent.      *)
(***************************************************************************)
\* C16: whatever the interleaving of the stages of the invocations, no
\* invocation raises, two invocations never work on the same ReasoningState,
\* the state of an invocation holds that invocation's input, and the result
\* an invocation returns (stage outputs, response, call count, tier,
\* resistance) is the result reason() gives for its input when run alone
\* with the same LLM answers.
C16_InvocationsAreIsolated ==
    /\ \A i \in 1..NInv :
          /\ frames[i].pc # "raised"
          /\ frames[i].pc # "begin" =>
                heap[frames[i].sid].input_problem = frames[i].input_problem
          /\ frames[i].pc = "returned" =>
                frames[i].result =
                    RunAloneOf[frames[i].input_problem][frames[i].script][client].result
    /\ \A i, j \in 1..NInv :
          (i # j /\ frames[i].pc # "begin" /\ frames[j].pc # "begin") =>
              frames[i].sid # frames[j].sid

\* two invocations with different inputs and different LLM answers are both
\* under way: the first is in the loop of stage 4, the second has made its
\* stage-6 call; later both have returned
C16_Witness ==
    /\ frames[1].input_problem = Text("We should always measure")
    /\ frames[2].input_problem = Text("2 + 2 = 4")
    /\ frames[1].script # frames[2].script
    /\ frames[1].pc = "think_call"
    /\ frames[1].dim = 4
    /\ heap[frames[1].sid].stage = "THINK"
    /\ frames[2].pc = "attain"
    /\ heap[frames[2].sid].stage = "ACT"
    /\ heap[frames[2].sid].llm_calls = 1

\* both invocations have returned, each with its own result
C16_BothReturned ==
    /\ frames[1].pc = "returned"
    /\ frames[2].pc = "returned"
    /\ frames[1].input_problem # frames[2].input_problem
    /\ frames[1].result.input = frames[1].input_problem
    /\ frames[2].result.input = frames[2].input_problem
    /\ frames[1].result.metadata.llm_calls # frames[2].result.metadata.llm_calls

(***************************************************************************)
(* Claims about the classification core, checked under Spec.               *)
(***************************************************************************)

\* C1: whatever the claim text, the token, the axiom match and the
\* verifiability, a classification of tier 12 is never verified: the cascade
\* returns verified = false, confidence 0.0, method integrity_violation_detected.
C1_Tier12NeverPasses ==
    (op = "verification_cascade" /\ arg.tier = 12) =>
        /\ ret.verified = FALSE
        /\ ret.confidence = 0
        /\ ret.method = "integrity_violation_detected"

\* a tier-12 call on a text that is itself an axiom and carries a tautology cue
C1_Witness ==
    /\ op = "verification_cascade"
    /\ claim_text = Text("This statement exists")
    /\ TruthFloorOf[claim_text] = Text("This statement exists")
    /\ arg.tier = 12
    /\ arg.verifiability = "unfalsifiable"
    /\ ret.verified = FALSE

(***************************************************************************)
(* Claims about reason(), checked under SpecReason.                        *)
(***************************************************************************)
STAGES ==
    <<"AWARE", "ENERGIZE", "RECOGNIZE", "THINK", "SOLVE", "ACT", "ATTAIN", "REST">>

\* The LLM call of stage 6, once made: the last call of the log
ResponseCall == llm_log[Len(llm_log)]

\* C2: for every input text and every combination of failing and succeeding
\* LLM calls, reason() never raises and cannot stop before it has returned;
\* when it has returned, the stages it went through are the 8 stages in
\* order, the last of them REST, the result is a result record for the
\* input, and if the response-generation call failed the response is the
\* inline error string of that failure.
C2_ReasonAlwaysCompletes ==
    /\ pc # "raised"
    /\ exc = NoneVal
    /\ pc # "returned" => ENABLED NextReason
    /\ pc = "returned" =>
        /\ stage = "REST"
        /\ stages_run = STAGES
        /\ DOMAIN result = {"input", "response", "stages", "metadata"}
        /\ result.input = input_problem
        /\ result.stages.rest.cycle_complete
        /\ ResponseCall.purpose = "response"
        /\ ~ResponseCall.ok =>
              result.response = "[Response generation failed: " \o ResponseCall.text \o "]"
        /\ ResponseCall.ok => result.response = ResponseCall.text

\* reason() has returned after the response-generation call and two of the
\* analysis calls before it failed
C2_Witness ==
    /\ pc = "returned"
    /\ stage = "REST"
    /\ Len(llm_log) = 8
    /\ ~llm_log[1].ok
    /\ ~llm_log[7].ok
    /\ ~ResponseCall.ok
    /\ result.response = "[Response generation failed: timeout]"

\* C3: in stage 4, whichever of the 7 dimension calls fail, every dimension
\* is called once, in the order logical, emotional, ethical, temporal,
\* stakeholder, risk, creative: while the loop runs the analysis holds one
\* entry per call made so far, and the analysis stage 4 stores has exactly
\* one entry per dimension in that order, the entry of a failed call being
\* the failure marker and the entry of any other call that call's own text.
C3_AnalysisPerDimension ==
    LET made == { i \in 1..Len(llm_log) : llm_log[i].purpose # "response" }
        EntryOf(i) == IF llm_log[i].ok THEN llm_log[i].text
                      ELSE "[Analysis failed: " \o llm_log[i].text \o "]"
    IN  /\ \A i \in made :
              /\ i <= Len(ANALYSIS_DIMENSIONS)
              /\ llm_log[i].purpose = ANALYSIS_DIMENSIONS[i]
              /\ Len(analysis) >= i
              /\ analysis[i] = [key |-> ANALYSIS_DIMENSIONS[i], value |-> EntryOf(i)]
        /\ Len(analysis) = Cardinality(made)
        /\ (pc \in {"solve", "act", "act_call", "attain", "rest", "returned"} /\ ~IsSkipped(thinking)) =>
              /\ Cardinality(made) = Len(ANALYSIS_DIMENSIONS)
              /\ thinking = analysis
              /\ [i \in 1..Len(thinking) |-> thinking[i].key] = ANALYSIS_DIMENSIONS

\* stage 4 is over; the calls for emotional and risk failed, the others did not
C3_Witness ==
    /\ pc = "solve"
    /\ Len(thinking) = 7
    /\ ~llm_log[2].ok
    /\ ~llm_log[6].ok
    /\ \A i \in {1, 3, 4, 5, 7} : llm_log[i].ok
    /\ thinking[2] = [key |-> "emotional", value |-> "[Analysis failed: timeout]"]
    /\ thinking[3] = [key |-> "ethical", value |-> "beta"]
    /\ thinking[7] = [key |-> "creative", value |-> "alpha"]

(***************************************************************************)
(* Claims about the classification core, continued.                        *)
(***************************************************************************)
FriendSaid == Text("My friend said Bitcoin will hit $200k this year.")

\* C4: classify of the "My friend said ..." sentence reports the epistemic
\* level testimonial and the final tier 8.
C4_FriendSaidIsTestimonial ==
    (op = "classify" /\ claim_text = FriendSaid) =>
        (ret.epistemic_level = "testimonial" /\ ret.tier = 8)

\* The axiom match as C5 states it: a keyword counts only when it is one of
\* the words of the lower-cased claim.
WordHits(axiom_words, words) ==
    { j \in 1..Len(axiom_words) :
        10 * Cardinality(axiom_words[j] \cap words) >= 6 * Cardinality(axiom_words[j]) }

WordSetFloor(text) ==
    FirstHit(TRUTH_FLOOR, WordHits(AXIOM_WORDS, SplitSet(Lower(text))))

\* C5: check_truth_floor returns the first axiom, in registry order, with at
\* least 60% of its keywords among the words of the claim, and none otherwise;
\* a keyword that only occurs inside a longer word does not count.
C5_KeywordsAreWholeWords ==
    op = "check_truth_floor" => ret = WordSetFloor(claim_text)

\* no keyword of any token occurs in the lower-cased text
NoKeywordOccurs(text) ==
    \A j \in 1..Len(TTO_TOKENS) : Score(TTO_TOKENS[j], Lower(text)) = 0

\* the tier number the epistemic level forces, or `native` when it forces none
OverrideTier(level, native) ==
    IF level = "introspective" THEN 10
    ELSE IF level = "testimonial" THEN 8
    ELSE IF level = "speculative" THEN 11
    ELSE native

\* C7: on a text in which no token keyword occurs (the empty string included)
\* classify returns a record whose token is the default AtomicFactTT,
\* "Atomic Fact", with tier 3 unless the epistemic override applies.
C7_DefaultToken ==
    (op = "classify" /\ NoKeywordOccurs(claim_text)) =>
        /\ ret.symbol = "AtomicFactTT"
        /\ ret.name = "Atomic Fact"
        /\ ret.tier = OverrideTier(ret.epistemic_level, 3)

C7_Witness ==
    /\ op = "classify"
    /\ claim_text = <<>>
    /\ NoKeywordOccurs(claim_text)
    /\ ret.symbol = "AtomicFactTT"
    /\ ret.tier = 3

\* The pattern groups in their priority order, each with the record it yields
DetectTable == <<
    [patterns |-> INTROSPECTIVE_PATTERNS,
     record |-> [subject_type |-> "self", epistemic_level |-> "introspective",
                 confidence |-> 100, access_type |-> "direct",
                 verifiability |-> "unfalsifiable"]],
    [patterns |-> TESTIMONIAL_PATTERNS,
     record |-> [subject_type |-> "other", epistemic_level |-> "testimonial",
                 confidence |-> 70, access_type |-> "reported",
                 verifiability |-> "partial"]],
    [patterns |-> AUTHORITY_PATTERNS,
     record |-> [subject_type |-> "authority", epistemic_level |-> "a_posteriori",
                 confidence |-> 85, access_type |-> "reported",
                 verifiability |-> "verifiable"]],
    [patterns |-> APRIORI_PATTERNS,
     record |-> [subject_type |-> "universal", epistemic_level |-> "a_priori",
                 confidence |-> 100, access_type |-> "direct",
                 verifiability |-> "verifiable"]],
    [patterns |-> NORMATIVE_PATTERNS,
     record |-> [subject_type |-> "anonymous", epistemic_level |-> "normative",
                 confidence |-> 60, access_type |-> "inferred",
                 verifiability |-> "partial"]] >>

DetectDefault ==
    [subject_type |-> "anonymous", epistemic_level |-> "a_posteriori",
     confidence |-> 80, access_type |-> "direct", verifiability |-> "verifiable"]

\* the groups of DetectTable with a pattern found in the lower-cased text
MatchingGroups(text) ==
    { g \in 1..Len(DetectTable) : AnyPattern(DetectTable[g].patterns, Lower(text)) }

\* C8: detect returns the record of the first group, in the order introspective,
\* testimonial, authority, a-priori, normative, that matches the lower-cased
\* text, and the default record when no group matches.
C8_FirstGroupWins ==
    op = "detect" =>
        LET groups == MatchingGroups(claim_text)
        IN  IF groups = {} THEN ret = DetectDefault
            ELSE \E g \in groups :
                    /\ \A h \in groups : g <= h
                    /\ ret = DetectTable[g].record

\* a text that matches the introspective, testimonial and authority groups
C8_Witness ==
    /\ op = "detect"
    /\ claim_text = Text("I think she said experts agree")
    /\ {1, 2, 3} \subseteq MatchingGroups(claim_text)
    /\ ret.epistemic_level = "introspective"

\* C9: the token classify reports has the highest keyword-hit count among the
\* tokens with at least one hit, and is the first in table order among the
\* tokens with that count.
C9_HighestCountFirstInTable ==
    op = "classify" =>
        LET text_lower == Lower(claim_text)
            hit == { j \in 1..Len(TTO_TOKENS) : Score(TTO_TOKENS[j], text_lower) > 0 }
        IN  hit # {} =>
                \E j \in hit :
                    /\ TTO_TOKENS[j].symbol = ret.symbol
                    /\ \A h \in hit :
                        /\ Score(TTO_TOKENS[j], text_lower) >= Score(TTO_TOKENS[h], text_lower)
                        /\ Score(TTO_TOKENS[j], text_lower) = Score(TTO_TOKENS[h], text_lower)
                              => j <= h

\* four tokens tie at one hit; the first of them in the table is reported
C9_Witness ==
    /\ op = "classify"
    /\ claim_text = FriendSaid
    /\ { TTO_TOKENS[j].symbol : j \in { h \in 1..Len(TTO_TOKENS) :
            Score(TTO_TOKENS[h], Lower(claim_text)) = 1 } }
         = {"AtomicFactTT", "HistoricalTT", "PredictiveTT", "TestimonialTT"}
    /\ ret.symbol = "AtomicFactTT"

Chocolate == Text("I think chocolate is the best flavor.")

\* C10: the final tier is 10 for an introspective claim, else 8 for a
\* testimonial one, else 11 for a speculative one, else the winning token's
\* tier; tier number, tier name and resistance are those of that tier, symbol
\* and name those of the winning token.
C10_FinalTier ==
    op = "classify" =>
        LET token == TTO_TOKENS[TokenIndex(ret.symbol)]
            final == OverrideTier(DetectOf[claim_text].epistemic_level, token.tier.tier_num)
        IN  /\ ret.epistemic_level = DetectOf[claim_text].epistemic_level
            /\ ret.tier = final
            /\ \E j \in 1..Len(TruthTier) :
                /\ TruthTier[j].tier_num = final
                /\ ret.tier_name = TruthTier[j].tier_name
                /\ ret.resistance = TruthTier[j].resistance
            /\ ret.name = token.name
            /\ Score(token, Lower(claim_text)) > 0 \/ NoKeywordOccurs(claim_text)
            /\ claim_text = Chocolate =>
                /\ ret.epistemic_level = "introspective"
                /\ ret.tier = 10
                /\ ret.verifiability = "unfalsifiable"

\* the chocolate sentence: the winning token is of tier 2, the final tier is 10
C10_Witness ==
    /\ op = "classify"
    /\ claim_text = Chocolate
    /\ ret.symbol = "BinaryLogicalTT"
    /\ TTO_TOKENS[TokenIndex(ret.symbol)].tier.tier_num = 2
    /\ ret.tier = 10
    /\ ret.tier_name = "Cognitive/Subjective"
    /\ ret.resistance = 350

(***************************************************************************)
(* Further claims about the classification core, checked under Spec.       *)
(***************************************************************************)
TwoPlusTwo == Text("2 + 2 = 4")

\* C11: classify of "2 + 2 = 4" reports tier 0 or 1, and verification_cascade
\* given that classification returns verified true with confidence at least
\* 0.90 by the method truth_floor_constant or mathematical_pattern.
C11_TwoPlusTwoIsMathematical ==
    claim_text = TwoPlusTwo =>
        /\ op = "classify" => ret.tier \in {0, 1}
        /\ (op = "verification_cascade" /\ arg = ClassifyOf[TwoPlusTwo]) =>
              /\ ret.method \in {"truth_floor_constant", "mathematical_pattern"}
              /\ ret.verified
              /\ ret.confidence >= 90

\* the cascade has run on the sentence's own classification
C11_Witness ==
    /\ claim_text = TwoPlusTwo
    /\ op = "verification_cascade"
    /\ arg = ClassifyOf[TwoPlusTwo]
    /\ arg.symbol = "MathematicalTT"
    /\ arg.tier = 1
    /\ ret.method = "mathematical_pattern"
    /\ ret.confidence = 95

\* C13: the tier table has 13 tiers numbered 0..12 without repetition,
\* resistance does not decrease as the tier number increases, it is 0.0 for
\* T0 and 1.0 for T12 and lies in [0, 1] for every tier; GET /tiers reports
\* the same table.  Resistance is in thousandths.
C13_TierTable ==
    LET n == Len(TruthTier)
    IN  /\ n = 13
        /\ { TruthTier[i].tier_num : i \in 1..n } = 0..12
        /\ \A i, j \in 1..n :
              TruthTier[i].tier_num < TruthTier[j].tier_num =>
                  TruthTier[i].resistance <= TruthTier[j].resistance
        /\ \A i \in 1..n :
              /\ TruthTier[i].resistance \in 0..1000
              /\ TruthTier[i].tier_num = 0 => TruthTier[i].resistance = 0
              /\ TruthTier[i].tier_num = 12 => TruthTier[i].resistance = 1000
        /\ op = "get_tiers" =>
              /\ ret.count = 13
              /\ \A i \in 1..n :
                    /\ ret.tiers[i].tier = TruthTier[i].tier_num
                    /\ ret.tiers[i].resistance = TruthTier[i].resistance

\* the table has been read through GET /tiers
C13_Witness ==
    /\ op = "get_tiers"
    /\ ret.count = 13
    /\ ret.tiers[1].tier = 0
    /\ ret.tiers[1].resistance = 0
    /\ ret.tiers[9].resistance = 180
    /\ ret.tiers[10].resistance = 250
    /\ ret.tiers[13].tier = 12
    /\ ret.tiers[13].resistance = 1000

\* str.upper(), for the casings of a claim.
\* str.upper() of one character, rows as in UNICODE_LOWER
UNICODE_UPPER == Table(4,
    "0000097 0000122 0000001 0000065 0000181 0000181 0000001 0000924 0000224 0000246 0000001 0000192 0000248 0000254 0000001 0000216 0000255 0000255 0000001 0000376 0000257 0000303 0000002 0000256 0000305 0000305 0000001 0000073 0000307 0000311 0000002 0000306 0000314 0000328 0000002 0000313 0000331 0000375 0000002 0000330 0000378 0000382 0000002 0000377 0000383 0000383 0000001 0000083 0000384 0000384 0000001 0000579 0000387 0000389 0000002 0000386 0000392 0000392 0000001 0000391 " \o
    "0000396 0000396 0000001 0000395 0000402 0000402 0000001 0000401 0000405 0000405 0000001 0000502 0000409 0000409 0000001 0000408 0000410 0000410 0000001 0000573 0000414 0000414 0000001 0000544 0000417 0000421 0000002 0000416 0000424 0000424 0000001 0000423 0000429 0000429 0000001 0000428 0000432 0000432 0000001 0000431 0000436 0000438 0000002 0000435 0000441 0000441 0000001 0000440 0000445 0000445 0000001 0000444 0000447 0000447 0000001 0000503 0000453 0000453 0000001 0000452 " \o
    "0000454 0000454 0000001 0000452 0000456 0000456 0000001 0000455 0000457 0000457 0000001 0000455 0000459 0000459 0000001 0000458 0000460 0000460 0000001 0000458 0000462 0000476 0000002 0000461 0000477 0000477 0000001 0000398 0000479 0000495 0000002 0000478 0000498 0000498 0000001 0000497 0000499 0000499 0000001 0000497 0000501 0000501 0000001 0000500 0000505 0000543 0000002 0000504 0000547 0000563 0000002 0000546 0000572 0000572 0000001 0000571 0000575 0000576 0000001 0011390 " \o
    "0000578 0000578 0000001 0000577 0000583 0000591 0000002 0000582 0000592 0000592 0000001 0011375 0000593 0000593 0000001 0011373 0000594 0000594 0000001 0011376 0000595 0000595 0000001 0000385 0000596 0000596 0000001 0000390 0000598 0000599 0000001 0000393 0000601 0000601 0000001 0000399 0000603 0000603 0000001 0000400 0000604 0000604 0000001 0042923 0000608 0000608 0000001 0000403 0000609 0000609 0000001 0042924 0000611 0000611 0000001 0000404 0000613 0000613 0000001 0042893 " \o
    "0000614 0000614 0000001 0042922 0000616 0000616 0000001 0000407 0000617 0000617 0000001 0000406 0000618 0000618 0000001 0042926 0000619 0000619 0000001 0011362 0000620 0000620 0000001 0042925 0000623 0000623 0000001 0000412 0000625 0000625 0000001 0011374 0000626 0000626 0000001 0000413 0000629 0000629 0000001 0000415 0000637 0000637 0000001 0011364 0000640 0000640 0000001 0000422 0000642 0000642 0000001 0042949 0000643 0000643 0000001 0000425 0000647 0000647 0000001 0042929 " \o
    "0000648 0000648 0000001 0000430 0000649 0000649 0000001 0000580 0000650 0000651 0000001 0000433 0000652 0000652 0000001 0000581 0000658 0000658 0000001 0000439 0000669 0000669 0000001 0042930 0000670 0000670 0000001 0042928 0000837 0000837 0000001 0000921 0000881 0000883 0000002 0000880 0000887 0000887 0000001 0000886 0000891 0000893 0000001 0001021 0000940 0000940 0000001 0000902 0000941 0000943 0000001 0000904 0000945 0000961 0000001 0000913 0000962 0000962 0000001 0000931 " \o
    "0000963 0000971 0000001 0000931 0000972 0000972 0000001 0000908 0000973 0000974 0000001 0000910 0000976 0000976 0000001 0000914 0000977 0000977 0000001 0000920 0000981 0000981 0000001 0000934 0000982 0000982 0000001 0000928 0000983 0000983 0000001 0000975 0000985 0001007 0000002 0000984 0001008 0001008 0000001 0000922 0001009 0001009 0000001 0000929 0001010 0001010 0000001 0001017 0001011 0001011 0000001 0000895 0001013 0001013 0000001 0000917 0001016 0001016 0000001 0001015 " \o
    "0001019 0001019 0000001 0001018 0001072 0001103 0000001 0001040 0001104 0001119 0000001 0001024 0001121 0001153 0000002 0001120 0001163 0001215 0000002 0001162 0001218 0001230 0000002 0001217 0001231 0001231 0000001 0001216 0001233 0001327 0000002 0001232 0001377 0001414 0000001 0001329 0004304 0004346 0000001 0007312 0004349 0004351 0000001 0007357 0005112 0005117 0000001 0005104 0007296 0007296 0000001 0001042 0007297 0007297 0000001 0001044 0007298 0007298 0000001 0001054 " \o
    "0007299 0007300 0000001 0001057 0007301 0007301 0000001 0001058 0007302 0007302 0000001 0001066 0007303 0007303 0000001 0001122 0007304 0007304 0000001 0042570 0007545 0007545 0000001 0042877 0007549 0007549 0000001 0011363 0007566 0007566 0000001 0042950 0007681 0007829 0000002 0007680 0007835 0007835 0000001 0007776 0007841 0007935 0000002 0007840 0007936 0007943 0000001 0007944 0007952 0007957 0000001 0007960 0007968 0007975 0000001 0007976 0007984 0007991 0000001 0007992 " \o
    "0008000 0008005 0000001 0008008 0008017 0008023 0000002 0008025 0008032 0008039 0000001 0008040 0008048 0008049 0000001 0008122 0008050 0008053 0000001 0008136 0008054 0008055 0000001 0008154 0008056 0008057 0000001 0008184 0008058 0008059 0000001 0008170 0008060 0008061 0000001 0008186 0008112 0008113 0000001 0008120 0008126 0008126 0000001 0000921 0008144 0008145 0000001 0008152 0008160 0008161 0000001 0008168 0008165 0008165 0000001 0008172 0008526 0008526 0000001 0008498 " \o
    "0008560 0008575 0000001 0008544 0008580 0008580 0000001 0008579 0009424 0009449 0000001 0009398 0011312 0011359 0000001 0011264 0011361 0011361 0000001 0011360 0011365 0011365 0000001 0000570 0011366 0011366 0000001 0000574 0011368 0011372 0000002 0011367 0011379 0011379 0000001 0011378 0011382 0011382 0000001 0011381 0011393 0011491 0000002 0011392 0011500 0011502 0000002 0011499 0011507 0011507 0000001 0011506 0011520 0011557 0000001 0004256 0011559 0011559 0000001 0004295 " \o
    "0011565 0011565 0000001 0004301 0042561 0042605 0000002 0042560 0042625 0042651 0000002 0042624 0042787 0042799 0000002 0042786 0042803 0042863 0000002 0042802 0042874 0042876 0000002 0042873 0042879 0042887 0000002 0042878 0042892 0042892 0000001 0042891 0042897 0042899 0000002 0042896 0042900 0042900 0000001 0042948 0042903 0042921 0000002 0042902 0042933 0042947 0000002 0042932 0042952 0042954 0000002 0042951 0042961 0042961 0000001 0042960 0042967 0042969 0000002 0042966 " \o
    "0042998 0042998 0000001 0042997 0043859 0043859 0000001 0042931 0043888 0043967 0000001 0005024 0065345 0065370 0000001 0065313 0066600 0066639 0000001 0066560 0066776 0066811 0000001 0066736 0066967 0066977 0000001 0066928 0066979 0066993 0000001 0066940 0066995 0067001 0000001 0066956 0067003 0067004 0000001 0066964 0068800 0068850 0000001 0068736 0071872 0071903 0000001 0071840 0093792 0093823 0000001 0093760 0125218 0125251 0000001 0125184 ")

\* the characters str.upper() turns into more than one character: the row
\* <<c, u1, u2, u3>> turns c into u1 u2 u3, or into u1 u2 when u3 is 0
UNICODE_UPPER_SPECIAL == Table(4,
    "0000223 0000083 0000083 0000000 0000329 0000700 0000078 0000000 0000496 0000074 0000780 0000000 0000912 0000921 0000776 0000769 0000944 0000933 0000776 0000769 0001415 0001333 0001362 0000000 0007830 0000072 0000817 0000000 0007831 0000084 0000776 0000000 0007832 0000087 0000778 0000000 0007833 0000089 0000778 0000000 0007834 0000065 0000702 0000000 0008016 0000933 0000787 0000000 0008018 0000933 0000787 0000768 0008020 0000933 0000787 0000769 0008022 0000933 0000787 0000834 " \o
    "0008064 0007944 0000921 0000000 0008065 0007945 0000921 0000000 0008066 0007946 0000921 0000000 0008067 0007947 0000921 0000000 0008068 0007948 0000921 0000000 0008069 0007949 0000921 0000000 0008070 0007950 0000921 0000000 0008071 0007951 0000921 0000000 0008072 0007944 0000921 0000000 0008073 0007945 0000921 0000000 0008074 0007946 0000921 0000000 0008075 0007947 0000921 0000000 0008076 0007948 0000921 0000000 0008077 0007949 0000921 0000000 0008078 0007950 0000921 0000000 " \o
    "0008079 0007951 0000921 0000000 0008080 0007976 0000921 0000000 0008081 0007977 0000921 0000000 0008082 0007978 0000921 0000000 0008083 0007979 0000921 0000000 0008084 0007980 0000921 0000000 0008085 0007981 0000921 0000000 0008086 0007982 0000921 0000000 0008087 0007983 0000921 0000000 0008088 0007976 0000921 0000000 0008089 0007977 0000921 0000000 0008090 0007978 0000921 0000000 0008091 0007979 0000921 0000000 0008092 0007980 0000921 0000000 0008093 0007981 0000921 0000000 " \o
    "0008094 0007982 0000921 0000000 0008095 0007983 0000921 0000000 0008096 0008040 0000921 0000000 0008097 0008041 0000921 0000000 0008098 0008042 0000921 0000000 0008099 0008043 0000921 0000000 0008100 0008044 0000921 0000000 0008101 0008045 0000921 0000000 0008102 0008046 0000921 0000000 0008103 0008047 0000921 0000000 0008104 0008040 0000921 0000000 0008105 0008041 0000921 0000000 0008106 0008042 0000921 0000000 0008107 0008043 0000921 0000000 0008108 0008044 0000921 0000000 " \o
    "0008109 0008045 0000921 0000000 0008110 0008046 0000921 0000000 0008111 0008047 0000921 0000000 0008114 0008122 0000921 0000000 0008115 0000913 0000921 0000000 0008116 0000902 0000921 0000000 0008118 0000913 0000834 0000000 0008119 0000913 0000834 0000921 0008124 0000913 0000921 0000000 0008130 0008138 0000921 0000000 0008131 0000919 0000921 0000000 0008132 0000905 0000921 0000000 0008134 0000919 0000834 0000000 0008135 0000919 0000834 0000921 0008140 0000919 0000921 0000000 " \o
    "0008146 0000921 0000776 0000768 0008147 0000921 0000776 0000769 0008150 0000921 0000834 0000000 0008151 0000921 0000776 0000834 0008162 0000933 0000776 0000768 0008163 0000933 0000776 0000769 0008164 0000929 0000787 0000000 0008166 0000933 0000834 0000000 0008167 0000933 0000776 0000834 0008178 0008186 0000921 0000000 0008179 0000937 0000921 0000000 0008180 0000911 0000921 0000000 0008182 0000937 0000834 0000000 0008183 0000937 0000834 0000921 0008188 0000937 0000921 0000000 " \o
    "0064256 0000070 0000070 0000000 0064257 0000070 0000073 0000000 0064258 0000070 0000076 0000000 0064259 0000070 0000070 0000073 0064260 0000070 0000070 0000076 0064261 0000083 0000084 0000000 0064262 0000083 0000084 0000000 0064275 0001348 0001350 0000000 0064276 0001348 0001333 0000000 0064277 0001348 0001339 0000000 0064278 0001358 0001350 0000000 0064279 0001348 0001341 0000000 ")

\* the text u1 u2 u3 of a row <<c, u1, u2, u3>>, without the zeros
SpecialText(specials, rows) ==
    SelectSeq(SubSeq(specials[CHOOSE k \in rows : TRUE], 2, 4), LAMBDA u : u # 0)

UpperCharIn(c, specials, rows) ==
    IF rows # {} THEN SpecialText(specials, rows) ELSE MapCharIn(c, UNICODE_UPPER)

\* c.upper() for one character, as a text
UpperChar(c) ==
    IF c < 128
    THEN IF 97 <= c /\ c <= 122 THEN <<c - 32>> ELSE <<c>>
    ELSE UpperCharIn(c, UNICODE_UPPER_SPECIAL,
                     { k \in 1..Len(UNICODE_UPPER_SPECIAL) : UNICODE_UPPER_SPECIAL[k][1] = c })

\* s[i-1:j].upper()
RECURSIVE UpperRange(_, _, _)
UpperRange(s, i, j) ==
    IF i > j THEN <<>>
    ELSE IF i = j THEN UpperChar(s[i])
    ELSE LET m == (i + j) \div 2
         IN  UpperRange(s, i, m) \o UpperRange(s, m + 1, j)

\* str.upper()
Upper(s) == UpperRange(s, 1, Len(s))

\* C14: check_truth_floor does not depend on the letter case of the claim:
\* the claim as written, in capitals and in small letters all get the same
\* axiom, or all get none.
C14_CaseInsensitiveFloor ==
    op = "check_truth_floor" =>
        /\ check_truth_floor(Upper(claim_text)) = ret
        /\ check_truth_floor(Lower(claim_text)) = ret

\* What holds instead: the casings of a claim that str.lower() brings to
\* the same text get the same axiom, or all get none.
C14_SameLoweredSameAxiom ==
    op = "check_truth_floor" =>
        /\ Lower(Upper(claim_text)) = Lower(claim_text)
              => check_truth_floor(Upper(claim_text)) = ret
        /\ check_truth_floor(Lower(claim_text)) = ret

\* the claim in capitals has been matched to the axiom written in mixed case
C14_Witness ==
    /\ op = "check_truth_floor"
    /\ claim_text = Text("ENERGY IS CONSERVED")
    /\ claim_text # Lower(claim_text)
    /\ ret = Text("Energy is conserved")
    /\ check_truth_floor(Text("Energy is conserved")) = ret
    /\ check_truth_floor(Text("energy is conserved")) = ret

\* The claim written with the variant pi, which str.lower() keeps and
\* str.upper() turns into the capital pi: the claim and its capitals have
\* been matched to different axioms.
C14_VariantPiDiffers ==
    /\ op = "check_truth_floor"
    /\ claim_text = Text("ϖ is transcendental")
    /\ Upper(claim_text) = Text("Π IS TRANSCENDENTAL")
    /\ ret = Text("e is transcendental")
    /\ check_truth_floor(Upper(claim_text)) = Text("π is transcendental")

\* The rows of the tier-band decision table for a claim text and a
\* classification: when the row applies, and the verified / confidence /
\* method it yields.  Confidence is in hundredths.
DecisionRows(text, classification) ==
    LET tier       == classification.tier
        axiom      == TruthFloorOf[text] # NoneText
        lowered    == Lower(text)
        tautology  == \E cue \in {"exists", "a = a", "identical"} :
                          Contains(lowered, Text(cue))
        arithmetic == Search(MATH_PATTERN, text)
        logical    == \E cue \in {"therefore", "thus", "implies", "if then"} :
                          Contains(lowered, Text(cue))
        keyword    == \E kw \in {"law", "constant", "measured", "documented", "recorded"} :
                          Contains(lowered, Text(kw))
        unfalsifiable == classification.verifiability = "unfalsifiable"
        Row(when, verified, confidence, method) ==
            [when |-> when, verified |-> verified, confidence |-> confidence,
             method |-> method]
    IN  { Row(tier = 0 /\ axiom, TRUE, 100, "truth_floor_axiom"),
          Row(tier = 0 /\ ~axiom /\ tautology, TRUE, 100, "tautology"),
          Row(tier \in {1, 2} /\ axiom, TRUE, 99, "truth_floor_constant"),
          Row(tier \in {1, 2} /\ ~axiom /\ arithmetic, TRUE, 95, "mathematical_pattern"),
          Row(tier \in {1, 2} /\ ~axiom /\ ~arithmetic /\ logical,
              TRUE, 90, "logical_pattern"),
          Row(tier \in {3, 4, 5} /\ keyword, TRUE, 85, "pattern_verified"),
          Row(tier \in {6, 7, 8}, TRUE, 70, "context_acknowledged"),
          Row(tier \in {9, 10, 11} /\ unfalsifiable, TRUE, 50, "epistemic_acknowledgment"),
          Row(tier \in {9, 10, 11} /\ ~unfalsifiable, TRUE, 40, "speculative_flagged"),
          Row(tier = 12, FALSE, 0, "integrity_violation_detected"),
          Row(\/ tier = 0 /\ ~axiom /\ ~tautology
              \/ tier \in {1, 2} /\ ~axiom /\ ~arithmetic /\ ~logical
              \/ tier \in {3, 4, 5} /\ ~keyword,
              TRUE, 60, "default_pass") }

\* C15: for every tier 0..12, every verifiability and every text,
\* verification_cascade yields what the one applicable row of the decision
\* table says, and the result's tier and resistance are those of the
\* classification it was given.
C15_CascadeIsTheDecisionTable ==
    op = "verification_cascade" =>
        LET fired == { row \in DecisionRows(claim_text, arg) : row.when }
        IN  /\ Cardinality(fired) = 1
            /\ \A row \in fired :
                  /\ ret.verified = row.verified
                  /\ ret.confidence = row.confidence
                  /\ ret.method = row.method
            /\ ret.tier = arg.tier
            /\ ret.resistance = arg.resistance

\* a tier-1 classification of an axiom text that also has an arithmetic
\* pattern: the axiom row comes first
C15_Witness ==
    /\ op = "verification_cascade"
    /\ claim_text = Text("c = 299792458 m/s in vacuum 1 = 1")
    /\ arg.tier = 1
    /\ Search(MATH_PATTERN, claim_text)
    /\ TruthFloorOf[claim_text] = Text("c = 299792458 m/s in vacuum")
    /\ ret.method = "truth_floor_constant"
    /\ ret.confidence = 99
    /\ ret.resistance = arg.resistance

(***************************************************************************)
(* Claims about the stages of reason(), continued.                         *)
(***************************************************************************)
\* the calls of stage 4 made so far, as positions of the call log
AnalysisCalls == { i \in 1..Len(llm_log) : llm_log[i].purpose # "response" }

\* deep analysis as C17 states it, from the input alone
DeepInput(text) ==
    \/ AwareOf[text].word_count > 50
    \/ AwareOf[text].epistemic_level \in {"testimonial", "normative"}

\* C17: stage 2 flags deep analysis exactly when the input has more than 50
\* words or its detected epistemic level is testimonial or normative, with
\* complexity high when flagged, else medium above 20 words, else low.  Stage
\* 4 calls the LLM once for each of the 7 dimensions exactly when flagged;
\* when not flagged it makes no call and stores {skipped: true} with a
\* reason.  The llm_calls reported in the result is 8 when flagged and 1 when
\* not, which is the number of calls made in stages 4 and 6.
C17_DeepAnalysisIffFlagged ==
    LET deep == DeepInput(input_problem)
        words == AwareOf[input_problem].word_count
    IN  /\ pc \in {"recognize", "think", "think_call", "solve", "act", "act_call", "attain",
                   "rest", "returned"} =>
              /\ energy_allocation.requires_deep_analysis = deep
              /\ energy_allocation.complexity =
                    IF deep THEN "high" ELSE IF words > 20 THEN "medium" ELSE "low"
        /\ pc \in {"solve", "act", "act_call", "attain", "rest", "returned"} =>
              /\ deep =>
                    /\ Cardinality(AnalysisCalls) = 7
                    /\ \A i \in 1..7 : llm_log[i].purpose = ANALYSIS_DIMENSIONS[i]
                    /\ ~IsSkipped(thinking)
              /\ ~deep =>
                    /\ AnalysisCalls = {}
                    /\ IsSkipped(thinking)
                    /\ \E i \in 1..Len(thinking) :
                          thinking[i].key = "reason" /\ Len(thinking[i].value) > 0
        /\ pc = "returned" =>
              /\ result.metadata.llm_calls = IF deep THEN 8 ELSE 1
              /\ result.metadata.llm_calls = Len(llm_log)
              /\ result.stages.think = thinking

\* reason() has returned for the 51-word input, whose level is neither
\* testimonial nor normative: 7 analysis calls and the response call
C17_Witness ==
    /\ pc = "returned"
    /\ input_problem = LongText
    /\ awareness.word_count = 51
    /\ awareness.epistemic_level = "a_posteriori"
    /\ Cardinality(AnalysisCalls) = 7
    /\ result.metadata.llm_calls = 8

\* reason() has returned for the 50-word input: the analysis was skipped
C17_SkippedAtFifty ==
    /\ pc = "returned"
    /\ input_problem = FiftyWords
    /\ awareness.word_count = 50
    /\ energy_allocation.complexity = "medium"
    /\ AnalysisCalls = {}
    /\ result.metadata.llm_calls = 1

\* reason() has returned for a normative input of 4 words: deep analysis
C17_ShortNormative ==
    /\ pc = "returned"
    /\ awareness.word_count = 4
    /\ awareness.epistemic_level = "normative"
    /\ result.metadata.llm_calls = 8

\* reason() has returned for the 20-word input: complexity low
C17_LowAtTwenty ==
    /\ pc = "returned"
    /\ awareness.word_count = 20
    /\ energy_allocation.complexity = "low"

\* C18: in every result of reason(), stage 7 reports goal_achieved =
\* (verified and confidence >= 0.5), confidence_level high from 0.85, medium
\* from 0.5 to below 0.85, low below 0.5, and caveats_needed = (confidence <
\* 0.85), all of the verification result stage 5 stored in this invocation;
\* so goal_achieved is false in every tier-12 result and every
\* speculative_flagged result, and confidence_level is high exactly when
\* caveats_needed is false.
C18_AttainFollowsVerification ==
    pc = "returned" =>
        LET sol == result.stages.solve
            att == result.stages.attain
        IN  /\ sol = solution
            /\ sol = SolveOf[input_problem]
            /\ att.goal_achieved = (sol.verified /\ sol.confidence >= 50)
            /\ att.confidence_level =
                  IF sol.confidence >= 85 THEN "high"
                  ELSE IF 50 <= sol.confidence /\ sol.confidence < 85 THEN "medium"
                  ELSE "low"
            /\ att.caveats_needed = (sol.confidence < 85)
            /\ sol.tier = 12 => ~att.goal_achieved
            /\ sol.method = "speculative_flagged" => ~att.goal_achieved
            /\ (att.confidence_level = "high") = ~att.caveats_needed

\* reason() has returned a result whose verification has confidence 0.85
\* exactly: confidence_level high, no caveats, goal achieved
C18_Witness ==
    /\ pc = "returned"
    /\ result.stages.solve.confidence = 85
    /\ result.stages.attain.confidence_level = "high"
    /\ ~result.stages.attain.caveats_needed
    /\ result.stages.attain.goal_achieved

\* a speculative_flagged result: verified, confidence 0.40, goal not achieved
C18_SpeculativeNotAchieved ==
    /\ pc = "returned"
    /\ result.stages.solve.method = "speculative_flagged"
    /\ result.stages.solve.verified
    /\ result.stages.attain.confidence_level = "low"
    /\ ~result.stages.attain.goal_achieved

\* a tier-12 result: goal not achieved
C18_Tier12NotAchieved ==
    /\ pc = "returned"
    /\ result.stages.solve.tier = 12
    /\ ~result.stages.attain.goal_achieved

\* a result with confidence 0.50 exactly: medium, goal achieved
C18_MediumAtHalf ==
    /\ pc = "returned"
    /\ result.stages.solve.confidence = 50
    /\ result.stages.attain.confidence_level = "medium"
    /\ result.stages.attain.goal_achieved
    /\ result.stages.attain.caveats_needed

\* the call each client shape offers: chat(model, messages) for the
\* chat-style client, messages.create for the messages-style client,
\* chat.completions.create for the completions-style client
OwnBranch(cl) ==
    IF cl = OllamaShape THEN "chat"
    ELSE IF cl = AnthropicShape THEN "messages"
    ELSE "completions"

\* C19: for each of the three client shapes, a call is made in the branch of
\* the call that client offers, and when the client's own call yields a text,
\* stage 4 stores that text for the dimension and stage 6 returns that text
\* as the response, never a failure marker.
C19_OwnCallTextIsUsed ==
    /\ \A i \in 1..Len(llm_log) :
          /\ llm_log[i].branch = OwnBranch(client)
          /\ (llm_log[i].transport.ok /\ i \in AnalysisCalls /\ Len(analysis) >= i) =>
                analysis[i].value = llm_log[i].transport.text
    /\ (pc = "returned" /\ ResponseCall.transport.ok) =>
          result.response = ResponseCall.transport.text

\* the same statement for the chat-style and messages-style clients only
C19_HoldsForChatAndMessages ==
    client \in {OllamaShape, AnthropicShape} => C19_OwnCallTextIsUsed

\* reason() has returned on the completions-style client: every call was
\* made in the chat branch and failed before it reached the transport, and
\* the response and the analysis entries are the failure markers
C19_CompletionsClientFails ==
    /\ pc = "returned"
    /\ client = OpenAIShape
    /\ \A i \in 1..Len(llm_log) :
          llm_log[i].transport = NoOutcome /\ llm_log[i].branch = "chat"
    /\ Len(llm_log) = 8
    /\ result.response = "[Response generation failed: 'Chat' object is not callable]"
    /\ thinking[1].value = "[Analysis failed: 'Chat' object is not callable]"

(***************************************************************************)
(* Claims about the API and the registry, continued.                       *)
(***************************************************************************)
\* C21: POST /classify with a missing or empty "text" responds with status
\* 400 and detail "Text is required" and does not run the classifier; with
\* a non-empty text it returns the text and its classification.
C21_MissingTextIs400 ==
    op = "classify_text" =>
        IF RequestText(arg) = <<>>
        THEN /\ ret.status_code = 400
             /\ ret.detail = "Text is required"
             /\ ret.classifier_calls = 0
        ELSE /\ ret.status_code = 200
             /\ ret.text = arg.text
             /\ ret.classification = ClassifyOf[arg.text]

\* What the endpoint does: a missing or empty text is answered with status
\* 500, the classifier not run; a non-empty text with the text and its
\* classification.
C21_MissingTextIs500 ==
    op = "classify_text" =>
        IF RequestText(arg) = <<>>
        THEN /\ ret.status_code = 500
             /\ ret.detail \in {"Classification failed: 400: Text is required",
                                "Classification failed: "}
             /\ ret.classifier_calls = 0
        ELSE /\ ret.status_code = 200
             /\ ret.text = arg.text
             /\ ret.classification = ClassifyOf[arg.text]
             /\ ret.classification.tier \in 0..12

\* POST /classify answered a request with no "text" key
C21_MissingTextAnswered ==
    /\ op = "classify_text"
    /\ arg = EmptyDict
    /\ ret.status_code = 500

\* POST /classify answered a request with the text "2 + 2 = 4"
C21_ClassifiedText ==
    /\ op = "classify_text"
    /\ RequestText(arg) = Text("2 + 2 = 4")
    /\ ret.status_code = 200
    /\ ret.classification.tier = 1

\* C22: every axiom of the registry matches itself: for each of the 12
\* axioms a, check_truth_floor(a) returns a, not an earlier axiom.
C22_AxiomsMatchThemselves ==
    (op = "check_truth_floor" /\ claim_text \in AXIOM_TEXTS) => ret = claim_text

\* The same for the axioms other than the 9th, "Shannon entropy of any
\* message is >= 0"
C22_AllButShannonMatchThemselves ==
    (op = "check_truth_floor" /\ claim_text \in AXIOM_TEXTS \ {TRUTH_FLOOR[9]}) =>
        ret = claim_text

\* check_truth_floor of the 9th axiom returned the 5th: "e" and "=" of
\* "E = hν" occur in it as substrings, 2 of 3 keywords
C22_ShannonMatchesPlanck ==
    /\ op = "check_truth_floor"
    /\ claim_text = TRUTH_FLOOR[9]
    /\ ret = TRUTH_FLOOR[5]
    /\ AxiomMatches(AXIOM_WORDS[5], Lower(claim_text)) = 2
    /\ Cardinality(AXIOM_WORDS[5]) = 3

\* the tokens bound to tier 12, as C23 lists them
T12_SYMBOLS == {"FalseTT", "MisleadingTT", "PropagandaTT", "ContradictoryTT"}

\* C23: whenever the winning token of classify is bound to tier 12, the
\* final tier of the classification is 12 and the verification result of
\* the pipeline for that input is verified = false with confidence 0.0,
\* whatever the detected epistemic level.
C23_Tier12TokenNeverVerified ==
    (pc \in {"act", "act_call", "attain", "rest", "returned"} /\ recognition.symbol \in T12_SYMBOLS) =>
        /\ recognition.tier = 12
        /\ ~solution.verified
        /\ solution.confidence = 0

\* The same when the detected epistemic level is none of introspective,
\* testimonial and speculative, the levels that replace the token's tier
C23_HoldsWithoutOverride ==
    ( /\ pc \in {"act", "act_call", "attain", "rest", "returned"}
      /\ recognition.symbol \in T12_SYMBOLS
      /\ recognition.epistemic_level \notin {"introspective", "testimonial", "speculative"} ) =>
        /\ recognition.tier = 12
        /\ ~solution.verified
        /\ solution.confidence = 0

\* the listed symbols are the tokens of TTO_TOKENS bound to tier 12
C23_ListedTokensAreTier12 ==
    T12_SYMBOLS = { TTO_TOKENS[j].symbol : j \in { h \in 1..Len(TTO_TOKENS) :
                                                    TTO_TOKENS[h].tier = T12_INTEGRITY } }

\* reason() has returned for an introspective input whose winning token is
\* FalseTT: final tier 10, verified, confidence 0.50, goal achieved
C23_IntrospectiveFalseVerified ==
    /\ pc = "returned"
    /\ result.stages.recognize.symbol = "FalseTT"
    /\ result.stages.recognize.epistemic_level = "introspective"
    /\ result.stages.recognize.tier = 10
    /\ result.stages.solve.verified
    /\ result.stages.solve.confidence = 50
    /\ result.stages.attain.goal_achieved

\* reason() has returned for a testimonial input whose winning token is
\* FalseTT: final tier 8, verified, confidence 0.70
C23_TestimonialFalseVerified ==
    /\ pc = "returned"
    /\ result.stages.recognize.symbol = "FalseTT"
    /\ result.stages.recognize.epistemic_level = "testimonial"
    /\ result.stages.recognize.tier = 8
    /\ result.stages.solve.verified
    /\ result.stages.solve.confidence = 70

\* reason() has returned for an input whose winning token is MisleadingTT
\* and whose level leaves the tier alone: tier 12, not verified
C23_MisleadingNotVerified ==
    /\ pc = "returned"
    /\ result.stages.recognize.symbol = "MisleadingTT"
    /\ result.stages.recognize.tier = 12
    /\ ~result.stages.solve.verified

=============================================================================
